---- MODULE Spec2Model ----
(***************************************************************************)
(* A model of StemLab (a fork of PyRPL): the register-access client        *)
(* (stemlab_client.py), the module setup/ownership framework (modules.py)  *)
(* and the IIR pole/zero lists (hardware_modules/iir/iir.py).              *)
(***************************************************************************)
EXTENDS Integers, Sequences, FiniteSets, Bags, TLC

VARIABLES
    \* ---- MonitorClient (stemlab_client.py) and its TCP connection
    cpc,        \* where the caller is: idle, loop, recv, drain, done
    fn,         \* the function try_n_times runs: "r" (_reads) or "w" (_writes)
    addr,       \* the addr argument of try_n_times
    value,      \* the value variable of try_n_times (length, values or None)
    arg,        \* the caller's original second argument (ghost)
    i,          \* the loop variable of try_n_times
    header,     \* the header built by the running attempt
    data,       \* the bytes the running attempt has received
    drained,    \* the loop variable of emptybuffer
    result,     \* what the public call gave its caller
    hasRestart, \* whether _restartserver is not None
    connected,  \* whether self.socket is connected
    req,        \* request frames sent and not yet handled by the server
    stream,     \* response bytes sent by the server and not yet received
    flood,      \* the peer keeps sending junk bytes
    peerClosed, \* the peer has closed its end of the connection
    mem,        \* the server's registers, from address MemBase on, in pages
    nAttempts,  \* attempts begun in the running call (ghost)
    allCaught,  \* every pass of the running call so far ended in a caught socket error (ghost)
    nGarbled,   \* corrupted responses in the running call: 0, 1, or 2 for more (ghost)
    nRecv,      \* calls of recv that returned bytes to the running attempt before
                \* its comparison: 0, 1, or 2 for more (ghost)
    emptyOdd,   \* whether the while loop of the running _reads has met an odd
                \* number of recv calls that returned b'' (ghost)
    faulted,    \* an attempt of the running call began on an unclean connection, or the
                \* call met a transport fault outside a drain or a failed reconnect (ghost)
    cbFailed,   \* the reconnect callback returned no port in the running call (ghost)
    \* ---- the IIR module object (modules.py, hardware_modules/iir/iir.py)
    iir,        \* its fields, with the record of its running call (trace, exc)
    callOp,     \* the last call made on the module from outside (ghost)
    callKey,    \* the attribute, list or former owner that call was about (ghost)
    callArg,    \* the value that call passed (ghost)
    preAcq,     \* the persisted setup attributes when the module was last acquired (ghost)
    \* ---- a caller that writes registers and reads them back
    rt,         \* where that caller is, what it wrote and what it read
    \* ---- a caller of the fixed-point codec of the IIR module
    fx,         \* the value it encodes, the two words, and what decoding gave
    \* ---- the coefficient registers of the IIR module
    coef,       \* the registers, _writtendata, and the record of the running call
    \* ---- two callers (threads) that share one client and its one socket
    tc,         \* the socket, the wire, the server's memory and each caller's frame
    \* ---- a caller of the list utilities of pyrpl_utils
    ut,         \* the function called, its argument and what it returned
    \* ---- a with-statement whose context manager is the IIR module
    wb,         \* where the statement is, and how its block was left
    \* ---- a caller of the signed-integer conversions of HardwareModule
    hm,         \* the numpy in use, the call made, its arguments and its result
    \* ---- the StemLab object (stemlab.py), its slaves and the parameter dicts
    rp          \* the dicts, which of them each object refers to, the servers started

clientVars == <<cpc, fn, addr, value, arg, i, header, data, drained, result,
                hasRestart, connected, req, stream, flood, peerClosed, mem,
                nAttempts, allCaught, nGarbled, nRecv, emptyOdd, faulted, cbFailed>>

moduleVars == <<iir, callOp, callKey, callArg, preAcq>>

\* the state of the parts that are modelled on their own
auxVars == <<fx, coef, tc, ut, wb, hm, rp>>

vars == <<clientVars, moduleVars, rt, auxVars>>

-----------------------------------------------------------------------------
(* Bounds of the model *)
MaxLen == 2
\* the number of elements in a page of a long sequence
PageLen == 256

(* Program constants *)
MaxTries == 5
DrainMax == 100
DrainRecvSize == 16384
MaxReadLen == 65535
MaxWriteLen == 65535 - 2
HeaderLen == 8
OpRead == 114
OpWrite == 119
OpClose == 99

\* a function over 1..n as the sequence of its values
AsSeq(f) == f \o <<>>

Addrs == {256}
\* the address of the first register the model carries
MemBase == CHOOSE a \in Addrs : \A b \in Addrs : a <= b
\* the word a caller writes at position k of its sequence
WordAt(k) == 16909060 + k
WriteInputs == {AsSeq([k \in 1..n |-> WordAt(k)]) : n \in 0..MaxLen}

-----------------------------------------------------------------------------
(* Bytes *)

\* (x >> (8*k)) & 0xFF
Byte(x, k) == (x \div (256 ^ k)) % 256

Min(a, b) == IF a < b THEN a ELSE b

Take(s, n) == SubSeq(s, 1, Min(n, Len(s)))
Drop(s, n) == SubSeq(s, Min(n, Len(s)) + 1, Len(s))

\* A long sequence is kept in the state as the sequence of its pages, each of
\* PageLen elements but the last, which has the rest.
PageOf(j) == ((j - 1) \div PageLen) + 1
SlotOf(j) == ((j - 1) % PageLen) + 1
Paged(s) ==
    AsSeq([p \in 1..((Len(s) + PageLen - 1) \div PageLen) |->
               SubSeq(s, (p - 1) * PageLen + 1, Min(p * PageLen, Len(s)))])
PagedLen(pages) ==
    IF pages = <<>> THEN 0
    ELSE (Len(pages) - 1) * PageLen + Len(pages[Len(pages)])
Flat(pages) == AsSeq([j \in 1..PagedLen(pages) |-> pages[PageOf(j)][SlotOf(j)]])

\* b'r' + bytes(bytearray([0, length & 0xFF, (length >> 8) & 0xFF, addr & 0xFF, ...]))
Header(op, length, a) ==
    <<op, 0, Byte(length, 0), Byte(length, 1),
      Byte(a, 0), Byte(a, 1), Byte(a, 2), Byte(a, 3)>>

\* np.array(values, dtype=np.uint32).tobytes()
ToBytes(values) ==
    AsSeq([k \in 1..(4 * Len(values)) |->
               Byte(values[((k - 1) \div 4) + 1], (k - 1) % 4)])

\* np.frombuffer(data, dtype=np.uint32)
FromBuffer(bytes) ==
    AsSeq([j \in 1..(Len(bytes) \div 4) |->
               bytes[4 * j - 3] + 256 * bytes[4 * j - 2]
               + 65536 * bytes[4 * j - 1] + 16777216 * bytes[4 * j]])

-----------------------------------------------------------------------------
(* Values of try_n_times' second argument *)
NoneValue == [t |-> "none", n |-> 0, v |-> <<>>]
LenValue(n) == [t |-> "len", n |-> n, v |-> <<>>]
SeqValue(v) == [t |-> "seq", n |-> 0, v |-> v]
TrueValue == [t |-> "true", n |-> 0, v |-> <<>>]

Pending == [kind |-> "pending", val |-> NoneValue]
Returned(val) == [kind |-> IF val = NoneValue THEN "none" ELSE "ok", val |-> val]
Raised(exc) == [kind |-> "raised", val |-> [t |-> exc, n |-> 0, v |-> <<>>]]

-----------------------------------------------------------------------------
(* The server (monitor_server) and the connection *)

ReqLength(h) == h[3] + 256 * h[4]
ReqAddr(h) == h[5] + 256 * h[6] + 65536 * h[7] + 16777216 * h[8]

\* the place of the register at address a in the server's registers
CellIndex(a) == ((a - MemBase) \div 4) + 1

MemRead(m, a) ==
    IF a >= MemBase /\ (a - MemBase) % 4 = 0 /\ CellIndex(a) <= PagedLen(m)
    THEN m[PageOf(CellIndex(a))][SlotOf(CellIndex(a))]
    ELSE 0

\* the words of registers a, a+4, ... as the server returns them
ServerWords(m, a, n) == AsSeq([k \in 1..n |-> MemRead(m, a + 4 * (k - 1))])

\* what register j holds after the server stored n words at a, a+4, ...
StoredAt(m, a, words, n, j) ==
    IF j >= CellIndex(a) /\ j < CellIndex(a) + n
    THEN words[j - CellIndex(a) + 1]
    ELSE m[PageOf(j)][SlotOf(j)]

\* the registers after the server stored n words at a, a+4, ...
ServerStoreN(m, a, words, n) ==
    AsSeq([p \in 1..Len(m) |->
               AsSeq([o \in 1..Len(m[p]) |->
                          StoredAt(m, a, words, n, (p - 1) * PageLen + o)])])

ServerStore(m, a, words) == ServerStoreN(m, a, words, Len(words))

\* the registers after the server handled a request frame
ServerMem(m, frame) ==
    IF frame.hdr[1] = OpWrite
    THEN ServerStore(m, ReqAddr(frame.hdr), FromBuffer(frame.body))
    ELSE m

\* the reply to a request frame: the echo of its header, then the data of a read
ServerReply(m, frame) ==
    IF frame.hdr[1] = OpRead
    THEN frame.hdr \o ToBytes(ServerWords(m, ReqAddr(frame.hdr), ReqLength(frame.hdr)))
    ELSE frame.hdr

\* a reply whose first byte is not the echo
Garble(bytes) == <<0>> \o Tail(bytes)

ServerRespond(mode) ==
    /\ req # <<>>
    /\ connected /\ ~peerClosed
    /\ mode \in {"flood", "garble"} => cpc \in {"recv", "drain"}
    /\ LET frame == Head(req)
           reply == ServerReply(mem, frame)
       IN /\ mem' = ServerMem(mem, frame)
          /\ stream' = stream \o (IF mode = "echo" THEN reply ELSE Garble(reply))
    /\ req' = Tail(req)
    /\ flood' = (flood \/ mode = "flood")
    /\ nGarbled' = IF mode = "echo" THEN nGarbled ELSE Min(nGarbled + 1, 2)
    /\ UNCHANGED <<cpc, fn, addr, value, arg, i, header, data, drained, result,
                   hasRestart, connected, peerClosed, nAttempts, allCaught, faulted,
                   cbFailed, nRecv, emptyOdd>>
    /\ UNCHANGED <<moduleVars, rt, auxVars>>

ServerClose ==
    /\ connected /\ ~peerClosed
    /\ peerClosed' = TRUE
    /\ flood' = FALSE
    /\ req' = <<>>
    /\ faulted' = (faulted \/ cpc \in {"loop", "recv", "drain"})
    /\ UNCHANGED <<cpc, fn, addr, value, arg, i, header, data, drained, result,
                   hasRestart, connected, stream, mem, nAttempts, allCaught, nGarbled, nRecv, emptyOdd,
                   cbFailed>>
    /\ UNCHANGED <<moduleVars, rt, auxVars>>

FloodStop ==
    /\ flood
    /\ flood' = FALSE
    /\ UNCHANGED <<cpc, fn, addr, value, arg, i, header, data, drained, result,
                   hasRestart, connected, req, stream, peerClosed, mem, nAttempts,
                   allCaught, nGarbled, nRecv, emptyOdd, faulted, cbFailed>>
    /\ UNCHANGED <<moduleVars, rt, auxVars>>

-----------------------------------------------------------------------------
(* MonitorClient *)

\* a loop that runs one pass too many
LoopContinuesOffByOne(k) == k + 1 <= MaxTries

\* for i in range(n): whether another attempt follows attempt k
LoopContinues(k) == k + 1 < MaxTries

\* the end of one pass of the loop of try_n_times that did not return
NextIteration(newValue) ==
    /\ value' = newValue
    /\ i' = i + 1
    /\ header' = <<>> /\ data' = <<>> /\ drained' = 0
    /\ IF LoopContinues(i)
       THEN cpc' = "loop" /\ result' = result
       ELSE cpc' = "done" /\ result' = Returned(NoneValue)

\* the connection carries nothing of an earlier exchange
CleanConnection ==
    connected /\ ~peerClosed /\ ~flood /\ stream = <<>> /\ req = <<>>

RestartOutcomes == {"connected", "unconnected", "noport"}

\* a handler that logs the error and goes on with the socket it has
CaughtKeepsSocket(outcome, fault) ==
    /\ UNCHANGED allCaught
    /\ faulted' = (faulted \/ fault)
    /\ UNCHANGED <<req, stream, flood, peerClosed, connected, cbFailed>>
    /\ NextIteration(value)

\* except (socket.timeout, socket.error): restart() when a callback is configured
\* (close, the callback, __init__ with its connection attempts), then the next pass
Caught(outcome, fault) ==
    /\ UNCHANGED allCaught
    /\ faulted' = (faulted \/ fault \/ (hasRestart /\ outcome # "connected"))
    /\ IF hasRestart
       THEN /\ req' = <<>> /\ stream' = <<>> /\ flood' = FALSE /\ peerClosed' = FALSE
            /\ connected' = (outcome = "connected")
            /\ cbFailed' = (cbFailed \/ outcome = "noport")
            /\ IF outcome = "noport"
               THEN /\ cpc' = "done" /\ result' = Raised("ValueError")
                    /\ header' = <<>> /\ data' = <<>> /\ drained' = 0
                    /\ UNCHANGED <<value, i>>
               ELSE NextIteration(value)
       ELSE /\ UNCHANGED <<req, stream, flood, peerClosed, connected, cbFailed>>
            /\ NextIteration(value)

\* reads(addr, length): try_n_times(self._reads, addr, length)
Reads(a, length) ==
    /\ cpc \in {"idle", "done"}
    /\ cpc' = "loop" /\ fn' = "r" /\ addr' = a
    /\ value' = LenValue(length) /\ arg' = LenValue(length)
    /\ i' = 0 /\ result' = Pending
    /\ header' = <<>> /\ data' = <<>> /\ drained' = 0
    /\ nAttempts' = 0 /\ allCaught' = TRUE /\ nGarbled' = 0 /\ faulted' = FALSE
    /\ nRecv' = 0 /\ emptyOdd' = FALSE
    /\ cbFailed' = FALSE
    /\ UNCHANGED <<hasRestart, connected, req, stream, flood, peerClosed, mem>>
    /\ UNCHANGED <<moduleVars, rt, auxVars>>

\* writes(addr, values): try_n_times(self._writes, addr, values)
Writes(a, values) ==
    /\ cpc \in {"idle", "done"}
    /\ cpc' = "loop" /\ fn' = "w" /\ addr' = a
    /\ value' = SeqValue(values) /\ arg' = SeqValue(values)
    /\ i' = 0 /\ result' = Pending
    /\ header' = <<>> /\ data' = <<>> /\ drained' = 0
    /\ nAttempts' = 0 /\ allCaught' = TRUE /\ nGarbled' = 0 /\ faulted' = FALSE
    /\ nRecv' = 0 /\ emptyOdd' = FALSE
    /\ cbFailed' = FALSE
    /\ UNCHANGED <<hasRestart, connected, req, stream, flood, peerClosed, mem>>
    /\ UNCHANGED <<moduleVars, rt, auxVars>>

\* the length _reads uses
ClampLength(length) == IF length > MaxReadLen THEN MaxReadLen ELSE length

\* a write that sends its first word only
TruncateToOne(values) == Take(values, 1)

\* values[:65535 - 2]
Truncate(values) == Take(values, MaxWriteLen)

\* the header the attempt builds from addr and value
AttemptHeader ==
    IF fn = "r"
    THEN Header(OpRead, ClampLength(value.n), addr)
    ELSE Header(OpWrite, Len(Truncate(value.v)), addr)

AttemptBody == IF fn = "r" THEN <<>> ELSE ToBytes(Truncate(value.v))

\* the number of bytes the attempt asks of the socket in all
Wanted == IF fn = "r" THEN 4 * ClampLength(value.n) + HeaderLen ELSE HeaderLen

\* function(addr, None): the comparison or the slice of None raises TypeError,
\* which try_n_times does not catch
AttemptTypeError ==
    /\ cpc = "loop" /\ value = NoneValue
    /\ nAttempts' = nAttempts + 1
    /\ cpc' = "done" /\ result' = Raised("TypeError")
    /\ allCaught' = FALSE
    /\ faulted' = (faulted \/ ~CleanConnection)
    /\ UNCHANGED <<fn, addr, value, arg, i, header, data, drained, hasRestart,
                   connected, req, stream, flood, peerClosed, mem, nGarbled, nRecv, emptyOdd,
                   cbFailed>>
    /\ UNCHANGED <<moduleVars, rt, auxVars>>

\* the attempt builds its header and sends the request
AttemptSend ==
    /\ cpc = "loop" /\ value # NoneValue
    /\ connected /\ req = <<>>
    /\ nAttempts' = nAttempts + 1
    /\ header' = AttemptHeader
    /\ data' = <<>>
    /\ req' = IF peerClosed THEN req
              ELSE Append(req, [hdr |-> AttemptHeader, body |-> AttemptBody])
    /\ cpc' = "recv"
    /\ nRecv' = 0 /\ emptyOdd' = FALSE
    /\ faulted' = (faulted \/ ~CleanConnection)
    /\ UNCHANGED <<fn, addr, value, arg, i, drained, result, hasRestart, connected,
                   stream, flood, peerClosed, mem, allCaught, nGarbled, cbFailed>>
    /\ UNCHANGED <<moduleVars, rt, auxVars>>

\* socket.send raises: the socket is not connected or the peer is gone
AttemptSendFails(outcome) ==
    /\ cpc = "loop" /\ value # NoneValue
    /\ ~connected \/ peerClosed
    /\ nAttempts' = nAttempts + 1
    /\ Caught(outcome, TRUE)
    /\ UNCHANGED <<fn, addr, arg, hasRestart, mem, nGarbled, nRecv, emptyOdd>>
    /\ UNCHANGED <<moduleVars, rt, auxVars>>

\* a comparison that leaves the opcode byte out
InSyncSkipsOpcode(bytes, hdr) == Drop(Take(bytes, HeaderLen), 1) = Drop(hdr, 1)

\* data[:8] == header
InSync(bytes, hdr) == Take(bytes, HeaderLen) = hdr

\* what the attempt returns for the bytes it received
AttemptValue(bytes) ==
    IF fn = "r" THEN SeqValue(FromBuffer(Drop(bytes, HeaderLen))) ELSE TrueValue

\* what _reads and _writes return for a reply, as one step
ReadsReturn(bytes, hdr) ==
    IF InSync(bytes, hdr) THEN SeqValue(FromBuffer(Drop(bytes, HeaderLen)))
    ELSE NoneValue

WritesReturn(bytes, hdr) == IF InSync(bytes, hdr) THEN TrueValue ELSE NoneValue

\* the attempt has all its bytes: return them, or start to drain
Received(bytes) ==
    IF InSync(bytes, header)
    THEN /\ cpc' = "done"
         /\ data' = bytes
         /\ value' = AttemptValue(bytes)
         /\ result' = Returned(AttemptValue(bytes))
         /\ allCaught' = FALSE
         /\ UNCHANGED <<i, drained>>
    ELSE /\ cpc' = "drain"
         /\ data' = <<>>
         /\ drained' = 0
         /\ UNCHANGED <<value, i, result, allCaught>>

\* a recv that asks for the whole response each time
RecvSizeWhole == Wanted

\* the number of bytes a recv of the attempt asks for: length * 4 + 8 at first,
\* length * 4 - len(data) + 8 in the loop of _reads; 8 in _writes
RecvSize == Wanted - Len(data)

\* socket.recv(k) returns n bytes, 1 <= n <= k
RecvChunk(n) ==
    /\ cpc = "recv"
    /\ n \in 1..Min(RecvSize, IF stream = <<>> /\ flood THEN RecvSize ELSE Len(stream))
    /\ nRecv' = Min(nRecv + 1, 2)
    /\ UNCHANGED emptyOdd
    /\ LET chunk == IF stream = <<>> THEN [k \in 1..n |-> 0] ELSE Take(stream, n)
           bytes == data \o chunk
       IN /\ stream' = Drop(stream, n)
          /\ IF fn = "r" /\ Len(bytes) < Wanted
             THEN /\ data' = bytes
                  /\ UNCHANGED <<cpc, value, i, drained, result, allCaught>>
             ELSE Received(bytes)
    /\ UNCHANGED <<fn, addr, arg, header, hasRestart, connected, req, flood,
                   peerClosed, mem, nAttempts, nGarbled, faulted, cbFailed>>
    /\ UNCHANGED <<moduleVars, rt, auxVars>>

\* socket.recv raises socket.timeout: nothing arrived within the second
RecvTimeout(outcome) ==
    /\ cpc = "recv"
    /\ stream = <<>> /\ ~flood /\ ~peerClosed
    /\ Caught(outcome, TRUE)
    /\ UNCHANGED <<fn, addr, arg, hasRestart, mem, nAttempts, nGarbled, nRecv, emptyOdd>>
    /\ UNCHANGED <<moduleVars, rt, auxVars>>

\* socket.recv returns b'': the peer has closed.  _reads stays in its while
\* loop; _writes compares b'' with the header
RecvEof ==
    /\ cpc = "recv"
    /\ stream = <<>> /\ ~flood /\ peerClosed
    /\ IF fn = "r" /\ Len(data) < Wanted
       THEN /\ emptyOdd' = ~emptyOdd
            /\ UNCHANGED <<cpc, value, i, data, drained, result, allCaught>>
       ELSE /\ Received(data)
            /\ UNCHANGED emptyOdd
    /\ UNCHANGED <<fn, addr, arg, header, hasRestart, connected, req, stream, flood,
                   peerClosed, mem, nAttempts, nGarbled, nRecv, faulted, cbFailed>>
    /\ UNCHANGED <<moduleVars, rt, auxVars>>

\* emptybuffer: one recv(16384) that returned n > 0 bytes
DrainChunk(n) ==
    /\ cpc = "drain" /\ drained < DrainMax
    /\ n \in 1..Min(DrainRecvSize, Len(stream))
    /\ stream' = Drop(stream, n)
    /\ drained' = drained + 1
    /\ UNCHANGED <<cpc, fn, addr, value, arg, i, header, data, result, hasRestart,
                   connected, req, flood, peerClosed, mem, nAttempts, allCaught,
                   nGarbled, nRecv, emptyOdd, faulted, cbFailed>>
    /\ UNCHANGED <<moduleVars, rt, auxVars>>

\* emptybuffer: recv returned b'' (n <= 0): return; the attempt returns None
DrainEof ==
    /\ cpc = "drain" /\ drained < DrainMax
    /\ stream = <<>> /\ ~flood /\ peerClosed
    /\ NextIteration(NoneValue)
    /\ allCaught' = FALSE
    /\ UNCHANGED <<fn, addr, arg, hasRestart, connected, req,
                   stream, flood, peerClosed, mem, nAttempts, nGarbled, nRecv, emptyOdd,
                   faulted, cbFailed>>
    /\ UNCHANGED <<moduleVars, rt, auxVars>>

\* emptybuffer: range(100) is exhausted, at once when the peer keeps sending
\* junk for all the iterations left; the attempt returns None
DrainLimit ==
    /\ cpc = "drain"
    /\ drained = DrainMax \/ (stream = <<>> /\ flood)
    /\ NextIteration(NoneValue)
    /\ allCaught' = FALSE
    /\ UNCHANGED <<fn, addr, arg, hasRestart, connected, req,
                   stream, flood, peerClosed, mem, nAttempts, nGarbled, nRecv, emptyOdd,
                   faulted, cbFailed>>
    /\ UNCHANGED <<moduleVars, rt, auxVars>>

\* emptybuffer: recv raises socket.timeout (no more data); the exception leaves
\* the attempt and try_n_times catches it
DrainTimeout(outcome) ==
    /\ cpc = "drain" /\ drained < DrainMax
    /\ stream = <<>> /\ ~flood /\ ~peerClosed
    /\ Caught(outcome, FALSE)
    /\ UNCHANGED <<fn, addr, arg, hasRestart, mem, nAttempts, nGarbled, nRecv, emptyOdd>>
    /\ UNCHANGED <<moduleVars, rt, auxVars>>

-----------------------------------------------------------------------------
ClientStart ==
    /\ cpc = "idle" /\ fn = "r" /\ addr = 256
    /\ value = NoneValue /\ arg = NoneValue
    /\ i = 0 /\ header = <<>> /\ data = <<>> /\ drained = 0
    /\ result = Pending
    /\ hasRestart \in BOOLEAN
    /\ connected = TRUE
    /\ req = <<>> /\ stream = <<>> /\ flood = FALSE /\ peerClosed = FALSE
    /\ nAttempts = 0 /\ allCaught = TRUE /\ nGarbled = 0 /\ faulted = FALSE
    /\ nRecv = 0 /\ emptyOdd = FALSE
    /\ cbFailed = FALSE

ClientInit == ClientStart /\ mem = Paged(AsSeq([j \in 1..MaxLen |-> 0]))

ClientNext ==
    \/ \E a \in Addrs, n \in 0..MaxLen : Reads(a, n)
    \/ \E a \in Addrs, v \in WriteInputs : Writes(a, v)
    \/ AttemptTypeError
    \/ AttemptSend
    \/ \E o \in RestartOutcomes : AttemptSendFails(o)
    \/ \E n \in 1..(4 * MaxLen + HeaderLen) : RecvChunk(n)
    \/ \E o \in RestartOutcomes : RecvTimeout(o)
    \/ RecvEof
    \/ \E n \in 1..(4 * MaxLen + HeaderLen) : DrainChunk(n)
    \/ DrainEof
    \/ DrainLimit
    \/ \E o \in RestartOutcomes : DrainTimeout(o)
    \/ \E mode \in {"echo", "garble", "flood"} : ServerRespond(mode)
    \/ ServerClose
    \/ FloodStop

-----------------------------------------------------------------------------
(* Modules: setup, the do_setup guard and ownership (modules.py), and the   *)
(* IIR module with its pole and zero lists (hardware_modules/iir/iir.py)     *)

(* Bounds of the model *)
MaxListLen == 2

\* the largest shift of the fixed-point codec that is looked at
MaxShift == 48

\* the bits the model keeps of a Python integer
IntBits == 72

\* _IIRSTAGES of the bitfile whose coefficient registers are modelled
CoefStages == 2

\* IIR._minloops, the default of loops
MinLoops == 5

\* _setup_attributes of IIR, in its order, without the attributes of FilterModule
\* and without bypass
SetupAttributes == <<"loops", "zeros", "poles", "gain", "on">>

\* the attributes declared with call_setup=True
CallSetupAttributes == {"loops", "zeros", "poles", "gain"}

\* [start+'_'+end for start in ['real', 'complex'] for end in ['poles', 'zeros']]
Containers == <<"real_poles", "real_zeros", "complex_poles", "complex_zeros">>

Range(s) == {s[k] : k \in DOMAIN s}

\* name.split('_')
Split(name) ==
    CASE name = "real_poles" -> <<"real", "poles">>
      [] name = "real_zeros" -> <<"real", "zeros">>
      [] name = "complex_poles" -> <<"complex", "poles">>
      [] name = "complex_zeros" -> <<"complex", "zeros">>

\* start + '_' + end
Join(start, end) == CHOOSE n \in Range(Containers) : Split(n) = <<start, end>>

\* self.name.split('_')[1]
PoleOrZero(name) == Split(name)[2]

NoOwner == "None"
Owners == {"x", "y"}

\* selected = None, selected = k
Unselected == {}
Index(k) == {k}

\* complex(re, im)
Cx(re, im) == [re |-> re, im |-> im]

-----------------------------------------------------------------------------
(* The record of a call: what it logged, emitted and raised *)

Event(e, a, b, flag) == [ev |-> e, a |-> a, b |-> b, flag |-> flag]

\* a log record, a signal or a call, with _setup_ongoing as it is at that time
Emit(m, e, a, b) == [m EXCEPT !.trace = Append(@, Event(e, a, b, m.setup_ongoing))]

Ok(m) == m.exc = "none"

Raise(m, exc) == [m EXCEPT !.exc = exc]

\* the number of events e in a trace
RECURSIVE Count(_, _)
Count(trace, e) ==
    IF trace = <<>> THEN 0
    ELSE (IF Head(trace).ev = e THEN 1 ELSE 0) + Count(Tail(trace), e)

-----------------------------------------------------------------------------
(* DoSetup *)

\* DoSetup.__enter__
DoSetupEnter(m) == Emit([m EXCEPT !.setup_ongoing = TRUE], "enter", "", "")

\* __exit__: the warning when the block raised
LogRaised(m) ==
    IF m.exc # "none"
    THEN Emit(m, "warning", "raised while _setup_ongoing", m.exc)
    ELSE m

\* an __exit__ that leaves the flag alone when the block raised
DoSetupExitKeepsFlagOnError(m) ==
    LogRaised(Emit([m EXCEPT !.setup_ongoing = (m.exc # "none")], "exit", "", ""))

\* DoSetup.__exit__: it returns None, so that an exception of the block goes on
DoSetupExit(m) == LogRaised(Emit([m EXCEPT !.setup_ongoing = FALSE], "exit", "", ""))

-----------------------------------------------------------------------------
(* The slave lists of IIR: normalisation of their elements *)

\* IirFloatListProperty.validate_and_normalize_element
NormalizeFloat(name, val) ==
    LET v1 == IF val > 0 /\ PoleOrZero(name) = "pole" THEN val * (0 - 1) ELSE val
    IN IF v1 = 0 THEN 0 - 1 ELSE v1

\* a normalisation that keeps the imaginary part as given
NormalizeComplexKeepsIm(name, val) ==
    LET re1 == IF val.re > 0 /\ PoleOrZero(name) = "pole" THEN val.re * (0 - 1) ELSE val.re
        re2 == IF re1 = 0 THEN 0 - 1 ELSE re1
    IN Cx(re2, val.im)

\* IirComplexListProperty.validate_and_normalize_element
NormalizeComplex(name, val) ==
    LET re1 == IF val.re > 0 /\ PoleOrZero(name) = "pole" THEN val.re * (0 - 1) ELSE val.re
        re2 == IF re1 = 0 THEN 0 - 1 ELSE re1
        im1 == IF val.im < 0 THEN val.im * (0 - 1) ELSE val.im
    IN Cx(re2, im1)

NormalizeElement(name, val) ==
    IF Split(name)[1] = "real" THEN NormalizeFloat(name, val)
    ELSE NormalizeComplex(name, val)

\* the log records of the normalisation of one element
ElementLog(name, val) ==
    LET re == IF Split(name)[1] = "real" THEN val ELSE val.re
        im == IF Split(name)[1] = "real" THEN 0 ELSE val.im
        positive == re > 0 /\ PoleOrZero(name) = "pole"
    IN (IF positive THEN <<Event("warning", "positive real part", name, FALSE)>> ELSE <<>>)
       \o (IF re = 0 THEN <<Event("warning", "real part of zero", name, FALSE)>> ELSE <<>>)
       \o (IF im < 0 THEN <<Event("info", "imaginary part inverted", name, FALSE)>> ELSE <<>>)

RECURSIVE ListLog(_, _)
ListLog(name, list) ==
    IF list = <<>> THEN <<>>
    ELSE ElementLog(name, Head(list)) \o ListLog(name, Tail(list))

\* np.imag(v) == 0
IsReal(v) == v.im = 0

IsNotReal(v) == ~IsReal(v)

\* the two lists joined the other way round
GetMasterRealFirst(m, name) ==
    LET real == m.lists[Join("real", name)]
    IN [k \in 1..Len(real) |-> Cx(real[k], 0)] \o m.lists[Join("complex", name)]

\* IirListProperty.get_value: list(complex_<name> + real_<name>)
GetMaster(m, name) ==
    LET real == m.lists[Join("real", name)]
    IN m.lists[Join("complex", name)] \o [k \in 1..Len(real) |-> Cx(real[k], 0)]

\* getattr(module, key)
AttrValue(m, key) ==
    IF key \in {"zeros", "poles"} THEN GetMaster(m, key) ELSE m[key]

-----------------------------------------------------------------------------
(* Attributes, setup and _setup *)

RECURSIVE SetAttr(_, _, _), SetValue(_, _, _), ValueUpdated(_, _), Setup(_, _),
          SetupAssign(_, _, _), IirSetup(_), SetSlave(_, _, _),
          MasterSetValue(_, _, _)

\* value_updated, when set_value did not raise
ThenValueUpdated(m, key) == IF Ok(m) THEN ValueUpdated(m, key) ELSE m

\* BaseAttribute.__set__: validate_and_normalize, set_value, value_updated
SetAttr(m, key, val) == ThenValueUpdated(SetValue(m, key, val), key)

\* set_value: of the master lists, or of an attribute that holds its own value
SetValue(m, key, val) ==
    IF key \in {"zeros", "poles"}
    THEN MasterSetValue(m, key, val)
    ELSE [m EXCEPT ![key] = val]

\* value_updated: the save of a setup attribute while autosave is active
SaveAttribute(m, key) ==
    IF m.autosave_active /\ key \in Range(SetupAttributes)
    THEN [m EXCEPT !.c[key] = AttrValue(m, key)]
    ELSE m

\* value_updated: setup() for a call_setup attribute, unless a setup is ongoing
CallSetup(m, key) ==
    IF key \in CallSetupAttributes /\ ~m.setup_ongoing
    THEN Setup(m, <<>>)
    ELSE m

\* BaseAttribute.value_updated: the signal, the save, the call of setup
ValueUpdated(m, key) == CallSetup(SaveAttribute(Emit(m, "changed", key, ""), key), key)

\* the list a slave stores: each element validated and normalised, with the log
StoreSlave(m, name, list) ==
    [m EXCEPT !.lists[name] = [k \in 1..Len(list) |-> NormalizeElement(name, list[k])],
              !.trace = @ \o ListLog(name, list)]

\* assignment to a slave list, and IirFloatListProperty.value_updated, which
\* forwards to the master's value_updated
SetSlave(m, name, list) ==
    ValueUpdated(Emit(StoreSlave(m, name, list), "changed", name, ""),
                 PoleOrZero(name))

\* real.append(v.real) for the real values
RealsOf(val) == [k \in 1..Len(SelectSeq(val, IsReal)) |-> SelectSeq(val, IsReal)[k].re]

\* setattr(obj, 'real_' + self.name, real), when the line before did not raise
ThenSetReal(m, name, val) ==
    IF Ok(m) THEN SetSlave(m, Join("real", name), RealsOf(val)) ELSE m

\* set_value without the guard of do_setup around the two assignments
MasterSetValueUnguarded(m, name, val) ==
    ThenSetReal(SetSlave(m, Join("complex", name), SelectSeq(val, IsNotReal)), name, val)

\* IirListProperty.set_value
MasterSetValue(m, name, val) ==
    DoSetupExit(
        ThenSetReal(
            SetSlave(DoSetupEnter(m), Join("complex", name), SelectSeq(val, IsNotReal)),
            name, val))

\* setup: setattr(self, key, value), which raises when the value given for
\* the key does not pass the attribute's validation
SetGiven(m, key, val) ==
    IF m.fault = key THEN Raise(m, "ValueError") ELSE SetAttr(m, key, val)

\* the loop of setup over self._setup_attributes, from position k on
SetupAssign(m, kwds, k) ==
    IF k > Len(SetupAttributes) \/ ~Ok(m) THEN m
    ELSE SetupAssign(IF SetupAttributes[k] \in DOMAIN kwds
                     THEN SetGiven(m, SetupAttributes[k], kwds[SetupAttributes[k]])
                     ELSE m,
                     kwds, k + 1)

\* setup: the warning for keys that are no setup attributes
WarnInvalid(m, kwds) ==
    IF Ok(m) /\ DOMAIN kwds \ Range(SetupAttributes) # {}
    THEN Emit(m, "warning", "invalid setup_attributes", "")
    ELSE m

\* setup: self._setup()
ThenIirSetup(m) == IF Ok(m) THEN IirSetup(m) ELSE m

\* setup: finally
SetupFinally(m) == [m EXCEPT !.setup_ongoing = FALSE]

\* the setup function that ModuleMetaClass.__init__ generates
Setup(m, kwds) ==
    SetupFinally(
        ThenIirSetup(
            WarnInvalid(SetupAssign([m EXCEPT !.setup_ongoing = TRUE], kwds, 1), kwds)))

\* self.loops = self.iirfilter.loops
SetLoops(m) == SetAttr(m, "loops", m.loops)

\* the block of IIR._setup
IirSetupBody(m) ==
    IF m.stages = 0
    THEN Raise(m, "Exception")
    ELSE Emit(SetAttr(Emit(SetLoops(SetAttr(m, "on", FALSE)),
                           "write", "coefficients", ""),
                      "on", TRUE),
              "emit", "update_plot", "")

\* IIR._setup
IirSetup(m) == DoSetupExit(IirSetupBody(DoSetupEnter(Emit(m, "_setup", "", ""))))

-----------------------------------------------------------------------------
(* Ownership *)

\* Module._load_setup_attributes: setup with the persisted setup attributes
LoadSetupAttributes(m) == Setup(Emit(m, "_load_setup_attributes", "", ""), m.c)

\* owner.setter: the reload when the module is freed
LoadIfFreed(m, val) == IF val = NoOwner THEN LoadSetupAttributes(m) ELSE m

\* owner.setter: the signal at its end
EmitChangeOwnership(m) ==
    IF Ok(m) THEN Emit(m, "emit", "change_ownership", "") ELSE m

\* a setter that leaves _autosave_active as it is
SetOwnerKeepsAutosave(m, val) ==
    Emit([m EXCEPT !.owner = val],
         "autosave", IF m.autosave_active THEN "True" ELSE "False", "")

\* owner.setter: self._owner = val and the assignment to self._autosave_active
SetOwner(m, val) ==
    Emit([m EXCEPT !.owner = val, !.autosave_active = (val = NoOwner)],
         "autosave", IF val = NoOwner THEN "True" ELSE "False", "")

\* the setter with the signal sent before the reload
OwnerSetterEmitsFirst(m, val) ==
    LoadIfFreed(
        EmitChangeOwnership(Emit(SetOwner(m, val), "_ownership_changed", m.owner, val)),
        val)

\* Module.owner.setter
OwnerSetter(m, val) ==
    EmitChangeOwnership(
        LoadIfFreed(Emit(SetOwner(m, val), "_ownership_changed", m.owner, val), val))

-----------------------------------------------------------------------------
(* Selection in the four lists *)

\* a filter that passes over the lists of the other kind
IsOtherOfSameKind(n, name) == n # name /\ Split(n)[1] = Split(name)[1]

\* name != self.name
IsOther(n, name) == n # name

RECURSIVE SelectedSetter(_, _, _), ListChangedSelect(_, _, _), ClearOthers(_, _, _)

\* the setter of selected of a list: it stores the index and reports the change
SelectedSetter(m, name, index) ==
    IF m.fault = name THEN Raise(m, "Exception")
    ELSE ListChangedSelect([m EXCEPT !.selected[name] = index], name, index)

\* module._logger.info('%s.selected = None', name), when the line before did
\* not raise
ThenInfo(m, name) == IF Ok(m) THEN Emit(m, "info", "selected = None", name) ELSE m

\* the loop of list_changed over the four names, from position k on
ClearOthers(m, name, k) ==
    IF k > Len(Containers) \/ ~Ok(m) THEN m
    ELSE ClearOthers(IF IsOther(Containers[k], name)
                     THEN ThenInfo(SelectedSetter(m, Containers[k], Unselected),
                                   Containers[k])
                     ELSE m,
                     name, k + 1)

\* list_changed: the two attributes set after the loop
SetSelected(m, name, index) ==
    IF Ok(m)
    THEN [m EXCEPT !.selected_pole_or_zero = name, !.selected_index = index]
    ELSE m

\* a reset of the flag that is not in a finally clause
SelectFinallyUnlessRaised(m) == IF Ok(m) THEN [m EXCEPT !.selecting = FALSE] ELSE m

\* list_changed: finally
SelectFinally(m) == [m EXCEPT !.selecting = FALSE]

\* list_changed: the base class's list_changed and the update_plot signal
EmitSelect(m, name) ==
    IF Ok(m)
    THEN Emit(Emit(m, "list_changed", name, "select"), "emit", "update_plot", "")
    ELSE m

\* a list_changed that notifies for the nested select events as well
ListChangedSelectEmitsNested(m, name, index) ==
    IF ~m.selecting
    THEN EmitSelect(
             SelectFinally(
                 SetSelected(ClearOthers([m EXCEPT !.selecting = TRUE], name, 1),
                             name, index)),
             name)
    ELSE EmitSelect(m, name)

\* IirFloatListProperty.list_changed with operation == 'select'
ListChangedSelect(m, name, index) ==
    IF ~m.selecting
    THEN EmitSelect(
             SelectFinally(
                 SetSelected(ClearOthers([m EXCEPT !.selecting = TRUE], name, 1),
                             name, index)),
             name)
    ELSE m

-----------------------------------------------------------------------------
(* Calls on the module from outside *)

\* the IIR object after construction, on a bitfile with st IIR stages
IirObject(st) ==
    [setup_ongoing |-> FALSE, owner |-> NoOwner, autosave_active |-> TRUE,
     loops |-> MinLoops, gain |-> 1, on |-> FALSE,
     lists |-> [n \in Range(Containers) |-> <<>>],
     selected |-> [n \in Range(Containers) |-> Unselected],
     selecting |-> FALSE, selected_pole_or_zero |-> "", selected_index |-> Unselected,
     c |-> [loops |-> MinLoops, zeros |-> <<>>, poles |-> <<>>, gain |-> 1,
            on |-> FALSE],
     stages |-> st, trace |-> <<>>, exc |-> "none",
     \* the list whose setter of selected raises in the running call, if any
     fault |-> ""]

Seqs(S, n) == UNION {[1..k -> S] : k \in 0..n}

StagesValues == {0, 16}
PoleInputs == Seqs({Cx(2, 0), Cx(0, 0), Cx(1, 0 - 3)}, MaxListLen)
ZeroInputs == Seqs({Cx(0 - 1, 1), Cx(0 - 1, 0 - 1)}, 1)
RealInputs == Seqs({2, 0}, 1) \cup {<<2, 0>>}
ComplexInputs == Seqs({Cx(0, 2)}, 1)
ScalarInputs ==
    [loops |-> {MinLoops, MinLoops + 1}, gain |-> {1, 2}, on |-> BOOLEAN]
KwdsInputs ==
    {<<>>, "loops" :> MinLoops + 1, "gain" :> 2, "poles" :> <<Cx(2, 0)>>,
     ("zeros" :> <<Cx(0, 0)>>) @@ ("gain" :> 2),
     ("loops" :> MinLoops + 1) @@ ("on" :> FALSE), "bogus" :> 1}

\* the module at the start of a call from outside
Fresh(m) == [m EXCEPT !.trace = <<>>, !.exc = "none"]

\* iir.setup(**kwds)
SetupCall(kwds) ==
    /\ iir' = Setup(Fresh(iir), kwds)
    /\ callOp' = "setup" /\ callKey' = "" /\ callArg' = kwds
    /\ UNCHANGED <<preAcq, clientVars, rt, auxVars>>

\* iir.setup(**kwds) with a value for the key bad that its attribute rejects
SetupRaising(kwds, bad) ==
    /\ bad \in DOMAIN kwds /\ bad \in Range(SetupAttributes)
    /\ iir' = [Setup([Fresh(iir) EXCEPT !.fault = bad], kwds) EXCEPT !.fault = ""]
    /\ callOp' = "setup_raising" /\ callKey' = bad /\ callArg' = kwds
    /\ UNCHANGED <<preAcq, clientVars, rt, auxVars>>

\* iir.<key> = val, for loops, gain and on
AssignScalar(key, val) ==
    /\ iir' = SetAttr(Fresh(iir), key, val)
    /\ callOp' = "set" /\ callKey' = key /\ callArg' = val
    /\ UNCHANGED <<preAcq, clientVars, rt, auxVars>>

\* iir.poles = val, iir.zeros = val
AssignMaster(name, val) ==
    /\ iir' = SetAttr(Fresh(iir), name, val)
    /\ callOp' = "master" /\ callKey' = name /\ callArg' = val
    /\ UNCHANGED <<preAcq, clientVars, rt, auxVars>>

\* iir.real_poles = list, and so on
AssignSlave(name, list) ==
    /\ iir' = SetSlave(Fresh(iir), name, list)
    /\ callOp' = "slave" /\ callKey' = name /\ callArg' = list
    /\ UNCHANGED <<preAcq, clientVars, rt, auxVars>>

\* iir.<name>.selected = index
Select(name, index) ==
    /\ iir' = SelectedSetter(Fresh(iir), name, index)
    /\ callOp' = "select" /\ callKey' = name /\ callArg' = index
    /\ UNCHANGED <<preAcq, clientVars, rt, auxVars>>

\* iir.<name>.selected = index, in a call in which the setter of selected of
\* the list bad raises
SelectRaising(name, index, bad) ==
    /\ bad # name
    /\ iir' = [SelectedSetter([Fresh(iir) EXCEPT !.fault = bad], name, index)
                   EXCEPT !.fault = ""]
    /\ callOp' = "select_raising" /\ callKey' = name /\ callArg' = index
    /\ UNCHANGED <<preAcq, clientVars, rt, auxVars>>

\* iir.owner = val
OwnerSet(val) ==
    /\ iir' = OwnerSetter(Fresh(iir), val)
    /\ callOp' = "owner" /\ callKey' = iir.owner /\ callArg' = val
    /\ preAcq' = IF iir.owner = NoOwner /\ val # NoOwner THEN iir.c ELSE preAcq
    /\ UNCHANGED <<clientVars, rt, auxVars>>

\* with iir.do_setup: a block that raises or not
DoSetupBlock(raises) ==
    /\ iir' = DoSetupExit(IF raises
                           THEN Raise(DoSetupEnter(Fresh(iir)), "BaseException")
                           ELSE DoSetupEnter(Fresh(iir)))
    /\ callOp' = "block" /\ callKey' = "" /\ callArg' = raises
    /\ UNCHANGED <<preAcq, clientVars, rt, auxVars>>

ModuleInit ==
    /\ \E st \in StagesValues : iir = IirObject(st)
    /\ callOp = "none" /\ callKey = "" /\ callArg = <<>>
    /\ preAcq = iir.c

\* the module while only the client is watched
ModuleIdle ==
    /\ iir = IirObject(16)
    /\ callOp = "none" /\ callKey = "" /\ callArg = <<>>
    /\ preAcq = iir.c

IirNext ==
    \/ \E kwds \in KwdsInputs : SetupCall(kwds)
    \/ \E key \in DOMAIN ScalarInputs : \E val \in ScalarInputs[key] :
           AssignScalar(key, val)
    \/ \E val \in PoleInputs : AssignMaster("poles", val)
    \/ \E val \in ZeroInputs : AssignMaster("zeros", val)
    \/ \E list \in RealInputs : AssignSlave("real_poles", list)
    \/ \E list \in ComplexInputs : AssignSlave("complex_poles", list)
    \/ \E raises \in BOOLEAN : DoSetupBlock(raises)

SelectNext ==
    \/ \E name \in Range(Containers), k \in 0..(MaxListLen - 1) :
           Select(name, Index(k))
    \/ \E name \in Range(Containers) : Select(name, Unselected)
    \/ \E list \in RealInputs : AssignSlave("real_poles", list)
    \/ \E list \in ComplexInputs : AssignSlave("complex_poles", list)

SetupRaisingNext ==
    \/ \E kwds \in KwdsInputs : SetupCall(kwds)
    \/ \E key \in DOMAIN ScalarInputs : \E val \in ScalarInputs[key] :
           AssignScalar(key, val)
    \/ \E kwds \in KwdsInputs, bad \in Range(SetupAttributes) :
           SetupRaising(kwds, bad)

SelectRaisingNext ==
    \/ \E name \in Range(Containers), k \in 0..(MaxListLen - 1) :
           Select(name, Index(k))
    \/ \E name \in Range(Containers) : Select(name, Unselected)
    \/ \E name \in Range(Containers), bad \in Range(Containers) :
           SelectRaising(name, Index(0), bad)

OwnerNext ==
    \/ \E val \in Owners \cup {NoOwner} : OwnerSet(val)
    \/ \E key \in DOMAIN ScalarInputs : \E val \in ScalarInputs[key] :
           AssignScalar(key, val)
    \/ \E val \in Seqs({Cx(2, 0)}, 1) : AssignMaster("poles", val)

\* no with-statement has been entered
WbStart == [pc |-> "out", raised |-> FALSE]

\* with iir as mod: __enter__ returns self
WithEnter ==
    /\ wb.pc # "in"
    /\ wb' = [pc |-> "in", raised |-> FALSE]
    /\ callOp' = "__enter__" /\ callKey' = iir.owner /\ callArg' = <<>>
    /\ UNCHANGED <<iir, preAcq, clientVars, rt, fx, coef, tc, ut, hm, rp>>

\* an __exit__ that frees the module only when the block returned
ExitUnlessRaised(m, raised) == IF raised THEN m ELSE OwnerSetter(m, NoOwner)

\* Module.__exit__(type, val, traceback): self.owner = None, whether the block
\* raised (type is not None) or not
Exit(m, raised) == OwnerSetter(m, NoOwner)

\* the block of the with-statement is left, by its end or by an exception
\* raised in it, and __exit__ runs
WithExit(raised) ==
    /\ wb.pc = "in"
    /\ wb' = [pc |-> "left", raised |-> raised]
    /\ iir' = Exit(Fresh(iir), raised)
    /\ callOp' = "__exit__" /\ callKey' = iir.owner /\ callArg' = NoOwner
    /\ UNCHANGED <<preAcq, clientVars, rt, fx, coef, tc, ut, hm, rp>>

\* the calls of the owner's, inside a with-statement and outside of it
WithNext ==
    \/ WithEnter
    \/ \E raised \in BOOLEAN : WithExit(raised)
    \/ \E val \in Owners \cup {NoOwner} : OwnerSet(val)
    \/ \E key \in DOMAIN ScalarInputs : \E val \in ScalarInputs[key] :
           AssignScalar(key, val)

-----------------------------------------------------------------------------
(* A caller that writes registers and reads them back, with a server that    *)
(* answers every request at once and as it should                             *)

clientVarsButMem ==
    <<cpc, fn, addr, value, arg, i, header, data, drained, result, hasRestart,
      connected, req, stream, flood, peerClosed, nAttempts, allCaught, nGarbled, nRecv, emptyOdd,
      faulted, cbFailed>>

\* a word with all bits but the highest set
HighWordAt(k) == 2147483647 - k

RoundTripInputs ==
    {AsSeq([k \in 1..n |-> WordAt(k)]) : n \in (0..MaxLen) \cup {MaxWriteLen, MaxWriteLen + 1}}
    \cup {AsSeq([k \in 1..n |-> HighWordAt(k)]) : n \in 1..MaxLen}

\* the request _reads sends
ReadFrame(a, length) ==
    [hdr |-> Header(OpRead, ClampLength(length), a), body |-> <<>>]

\* a write whose header carries the length of the values it was given
WriteFrameFullLength(a, values) ==
    [hdr |-> Header(OpWrite, Len(values), a),
     body |-> ToBytes(Truncate(values))]

\* the request _writes sends
WriteFrame(a, values) ==
    [hdr |-> Header(OpWrite, Len(Truncate(values)), a),
     body |-> ToBytes(Truncate(values))]

\* a value as the state keeps it
PagedValue(val) == [val EXCEPT !.v = Paged(val.v)]

RtStart == [phase |-> "start", addr |-> 256, written |-> <<>>, n |-> 0,
            out |-> NoneValue, hdr |-> <<>>, sent |-> 0]

RoundTripWritesFrame(a, values, frame) ==
    /\ rt.phase = "start"
    /\ mem' = ServerMem(mem, frame)
    /\ rt' = [phase |-> "written", addr |-> a, written |-> Paged(values), n |-> 0,
              out |-> PagedValue(WritesReturn(ServerReply(mem, frame), frame.hdr)),
              hdr |-> frame.hdr, sent |-> Len(frame.body)]
    /\ UNCHANGED <<clientVarsButMem, moduleVars, auxVars>>

\* writes(a, values), its first attempt answered
RoundTripWrites(a, values) == RoundTripWritesFrame(a, values, WriteFrame(a, values))

RoundTripReadsFrame(length, frame) ==
    /\ rt.phase = "written"
    /\ rt' = [rt EXCEPT !.phase = "read", !.n = length,
                        !.out = PagedValue(ReadsReturn(ServerReply(mem, frame),
                                                       frame.hdr))]
    /\ UNCHANGED <<clientVars, moduleVars, auxVars>>

\* reads(a, length) at the address just written, its first attempt answered
RoundTripReads(length) == RoundTripReadsFrame(length, ReadFrame(rt.addr, length))

\* the caller starts over
RoundTripAgain ==
    /\ rt.phase = "read"
    /\ rt' = RtStart
    /\ UNCHANGED <<clientVars, moduleVars, auxVars>>

RoundTripNext ==
    \/ \E a \in Addrs, values \in RoundTripInputs : RoundTripWrites(a, values)
    \/ \E length \in (0..MaxLen) \cup {PagedLen(rt.written)} : RoundTripReads(length)
    \/ RoundTripAgain

-----------------------------------------------------------------------------
(* The fixed-point codec of the IIR module (hardware_modules/iir/iir.py).
   Python integers are unbounded; the model keeps an integer as its IntBits
   two's-complement bits, least significant first, wide enough for every
   value the inputs below produce. *)

\* bit number j (from 0) of an integer of the model
BitAt(x, j) == x[j + 1]

Zero == AsSeq([j \in 1..IntBits |-> 0])

One == AsSeq([j \in 1..IntBits |-> IF j = 1 THEN 1 ELSE 0])

\* the bits of a natural number below 2^30
NatBits(n) == AsSeq([j \in 1..IntBits |-> IF j <= 30 THEN (n \div 2 ^ (j - 1)) % 2 ELSE 0])

RECURSIVE AddFrom(_, _, _, _)
AddFrom(x, y, j, carry) ==
    IF j > IntBits THEN <<>>
    ELSE <<(x[j] + y[j] + carry) % 2>>
         \o AddFrom(x, y, j + 1, (x[j] + y[j] + carry) \div 2)

\* x + y
Add(x, y) == AddFrom(x, y, 1, 0)

\* ~x
Invert(x) == AsSeq([j \in 1..IntBits |-> 1 - x[j]])

\* -x
Neg(x) == Add(Invert(x), One)

\* x - y
Sub(x, y) == Add(x, Neg(y))

\* x & y
And(x, y) == AsSeq([j \in 1..IntBits |-> x[j] * y[j]])

\* x << n, for n >= 0
ShiftLeft(x, n) == AsSeq([j \in 1..IntBits |-> IF j - n >= 1 THEN x[j - n] ELSE 0])

\* x >> n, for n >= 0: Python's shift keeps the sign
ShiftRight(x, n) ==
    AsSeq([j \in 1..IntBits |-> IF j + n <= IntBits THEN x[j + n] ELSE x[IntBits]])

\* 2 ** n
Pow2(n) == ShiftLeft(One, n)

\* the integers 2 ** n - 1, for n from 0 on
Masks == AsSeq([j \in 1..IntBits |-> Sub(ShiftLeft(One, j - 1), One)])

\* 2 ** n - 1, also written (1 << n) - 1, for n >= 0
Mask(n) == Masks[n + 1]

IsNeg(x) == x[IntBits] = 1

\* x < y
Lt(x, y) == IsNeg(Sub(x, y))

\* x <= y
Le(x, y) == ~Lt(y, x)

\* a small Python integer
FromInt(n) == IF n >= 0 THEN NatBits(n) ELSE Neg(NatBits(-n))

\* np.round of k / 2^d for d > 0: to the nearest integer, a half to the even one
RoundHalfEven(k, d) ==
    IF And(k, Mask(d)) = Pow2(d - 1)
    THEN IF BitAt(ShiftRight(k, d), 0) = 1
         THEN Add(ShiftRight(k, d), One)
         ELSE ShiftRight(k, d)
    ELSE IF Lt(Pow2(d - 1), And(k, Mask(d)))
         THEN Add(ShiftRight(k, d), One)
         ELSE ShiftRight(k, d)

\* int(np.round(v * 2 ** shift)) for the double v = v.k * 2^v.x: the product by
\* a power of two is exact
RoundScaled(v, shift) ==
    IF v.x + shift >= 0
    THEN ShiftLeft(FromInt(v.k), v.x + shift)
    ELSE RoundHalfEven(FromInt(v.k), -(v.x + shift))

\* hi and lo of the masked integer v in _from_double
Words(v) ==
    [hi |-> And(ShiftRight(v, 32), Mask(32)),
     lo |-> And(ShiftRight(v, 0), Mask(32))]

\* the words (hi, lo) _from_double returns
FromDouble(v, bitlength, shift) ==
    Words(And(RoundScaled(v, shift), Mask(bitlength)))

\* a double num / 2^shift; the division by a power of two is exact
Double(num, shift) == [num |-> num, shift |-> shift]

\* v in _to_double before its sign is looked at: (hi << 32) + lo of the masked words
Reassembled(hi, lo, bitlength) ==
    Add(ShiftLeft(And(hi, Mask(bitlength - 32)), 32), And(lo, Mask(32)))

\* the sign step of _to_double
SignExtend(v, bitlength) ==
    IF ShiftRight(v, bitlength - 1) # Zero THEN Sub(v, Pow2(bitlength)) ELSE v

\* 1 << (bitlength - 32) raises ValueError (negative shift count) for a
\* bitlength below 32
ToDouble(hi, lo, bitlength, shift) ==
    IF bitlength - 32 < 0
    THEN [exc |-> "ValueError", out |-> Double(Zero, shift)]
    ELSE [exc |-> "",
          out |-> Double(SignExtend(Reassembled(hi, lo, bitlength), bitlength), shift)]

\* the bit lengths and shifts the codec is used with
BitLengths == {14, 32, 64}

Shifts == 0..MaxShift

\* doubles k * 2^x whose scaled value is around zero and around the ends of the
\* range of bitlength bits
CodecInputs(bitlength, shift) ==
    {[k |-> k, x |-> t - shift] :
        k \in {-3, -1, 0, 1, 3}, t \in {-2, -1, 0, 1, bitlength - 2, bitlength - 1}}

FxStart ==
    [pc |-> "idle", v |-> [k |-> 0, x |-> 0], bitlength |-> 64, shift |-> 0,
     hi |-> Zero, lo |-> Zero, exc |-> "", out |-> Double(Zero, 0)]

\* a caller encodes a value
FromDoubleCall(v, bitlength, shift) ==
    /\ fx.pc = "idle"
    /\ \E words \in {FromDouble(v, bitlength, shift)} :
           fx' = [fx EXCEPT !.pc = "encoded", !.v = v, !.bitlength = bitlength,
                            !.shift = shift, !.hi = words.hi, !.lo = words.lo]
    /\ UNCHANGED <<clientVars, moduleVars, rt, coef, tc, ut, wb, hm, rp>>

\* and decodes the two words it got
ToDoubleCall ==
    /\ fx.pc = "encoded"
    /\ \E r \in {ToDouble(fx.hi, fx.lo, fx.bitlength, fx.shift)} :
           fx' = [fx EXCEPT !.pc = "decoded", !.exc = r.exc, !.out = r.out]
    /\ UNCHANGED <<clientVars, moduleVars, rt, coef, tc, ut, wb, hm, rp>>

CodecAgain ==
    /\ fx.pc = "decoded"
    /\ fx' = FxStart
    /\ UNCHANGED <<clientVars, moduleVars, rt, coef, tc, ut, wb, hm, rp>>

CodecNext ==
    \/ \E bitlength \in BitLengths, shift \in Shifts :
           \E v \in CodecInputs(bitlength, shift) : FromDoubleCall(v, bitlength, shift)
    \/ ToDoubleCall
    \/ CodecAgain

-----------------------------------------------------------------------------
(* The coefficient registers of the IIR module (hardware_modules/iir/iir.py):
   the setter of IIR.coefficients, on a bitfile with CoefStages biquad
   stages. *)

\* a 32-bit register word: the low 32 bits
Word32(x) == SubSeq(x, 1, 32)

\* v[i, j] *= -1
Negated(v) == [v EXCEPT !.k = 0 - v.k]

\* the value encoded for row and column j: columns 4 and 5 inverted (_invert)
Encoded(v, row, j) == IF j > 3 THEN Negated(v[row + 1][j + 1]) ELSE v[row + 1][j + 1]

\* data[row * 8 + k * 2] = lo and data[row * 8 + k * 2 + 1] = hi
LoHi(words) == <<Word32(words.lo), Word32(words.hi)>>

\* the eight words of a stage: those of columns 0, 1, 4 and 5 (k = 0, 1, 2, 3)
StageData(v, row, bitlength, shift) ==
    LoHi(FromDouble(Encoded(v, row, 0), bitlength, shift))
    \o LoHi(FromDouble(Encoded(v, row, 1), bitlength, shift))
    \o LoHi(FromDouble(Encoded(v, row, 4), bitlength, shift))
    \o LoHi(FromDouble(Encoded(v, row, 5), bitlength, shift))

\* data from stage row on: np.zeros(stages * 8) filled by the loops over the
\* rows of v
RECURSIVE DataFrom(_, _, _, _, _)
DataFrom(v, row, bitlength, shift, stages) ==
    IF row >= stages THEN <<>>
    ELSE (IF row < Len(v) THEN StageData(v, row, bitlength, shift)
          ELSE AsSeq([n \in 1..8 |-> Word32(Zero)]))
         \o DataFrom(v, row + 1, bitlength, shift, stages)

CoefficientsData(v, bitlength, shift, stages) == DataFrom(v, 0, bitlength, shift, stages)

\* the warnings of the loops: b_2 not zero, a_0 not one
RowWarnings(v) ==
    {<<"b_2", row>> : row \in {n \in DOMAIN v : v[n][3].k # 0}}
    \cup {<<"a_0", row>> : row \in {n \in DOMAIN v : v[n][4] # [k |-> 1, x |-> 0]}}

\* a value assigned to coefficients: None, or a matrix given by its rows
NoneMatrix == [none |-> TRUE, rows |-> <<>>]

Matrix(rows) == [none |-> FALSE, rows |-> rows]

\* v = [] for None, with its warning
NoneAsEmpty(v) == IF v.none THEN <<>> ELSE v.rows

NoneWarning(v) == IF v.none THEN {<<"None", 0>>} ELSE {}

\* self._writes(0x8000, data): the registers afterwards; a write that the
\* client gave up on may have reached the registers or not
AfterWrites(c, words, outcome) ==
    [c EXCEPT !.regs = IF outcome = "lost" THEN @ ELSE words,
              !.wrote = TRUE, !.payload = Len(words)]

\* self._writtendata = data
Cache(c, words) == [c EXCEPT !.writtendata = [set |-> TRUE, data |-> words]]

\* self._writes(0x8000, data) and self._writtendata = data
WriteAndCache(c, words, outcome) == Cache(AfterWrites(c, words, outcome), words)

\* a setter that writes the stages there are before it looks at the length
CoefficientsSetterWritesFirst(c, v, outcome) ==
    IF Len(NoneAsEmpty(v)) > c.stages
    THEN [AfterWrites(c, CoefficientsData(SubSeq(NoneAsEmpty(v), 1, c.stages),
                                          c.bitlength, c.shift, c.stages), outcome)
             EXCEPT !.exc = "Exception", !.log = NoneWarning(v)]
    ELSE [WriteAndCache(c, CoefficientsData(NoneAsEmpty(v), c.bitlength, c.shift,
                                            c.stages), outcome)
             EXCEPT !.log = NoneWarning(v) \cup RowWarnings(NoneAsEmpty(v))]

\* IIR.coefficients.setter
CoefficientsSetter(c, v, outcome) ==
    IF Len(NoneAsEmpty(v)) > c.stages
    THEN [c EXCEPT !.exc = "Exception", !.log = NoneWarning(v)]
    ELSE [WriteAndCache(c, CoefficientsData(NoneAsEmpty(v), c.bitlength, c.shift,
                                            c.stages), outcome)
             EXCEPT !.log = NoneWarning(v) \cup RowWarnings(NoneAsEmpty(v))]

\* rows of a coefficient matrix: b_0, b_1, b_2, a_0, a_1, a_2
RowInputs ==
    <<<<[k |-> 1, x |-> 0], [k |-> 1, x |-> 0 - 1], [k |-> 0, x |-> 0],
        [k |-> 1, x |-> 0], [k |-> 0 - 3, x |-> 0 - 1], [k |-> 1, x |-> 0 - 2]>>,
      <<[k |-> 0 - 1, x |-> 0 - 3], [k |-> 0, x |-> 0], [k |-> 1, x |-> 0],
        [k |-> 3, x |-> 0], [k |-> 1, x |-> 0], [k |-> 0, x |-> 0]>>>>

\* matrices of up to one stage more than the bitfile has, their rows taken in
\* turn from RowInputs beginning with the first or the second, and None
MatrixInputs ==
    {Matrix(AsSeq([n \in 1..l |-> RowInputs[((n + first) % 2) + 1]])) :
        l \in 0..(CoefStages + 1), first \in 0..1}
    \cup {NoneMatrix}

\* the module after construction: no _writtendata, the registers zero
CoefStart(bitlength, shift) ==
    [stages |-> CoefStages, bitlength |-> bitlength, shift |-> shift,
     regs |-> AsSeq([n \in 1..(CoefStages * 8) |-> Word32(Zero)]),
     writtendata |-> [set |-> FALSE, data |-> <<>>],
     exc |-> "none", log |-> {}, arg |-> Matrix(<<>>), wrote |-> FALSE, payload |-> 0]

\* the module at the start of a call of the setter
CoefFresh(c, v) ==
    [c EXCEPT !.exc = "none", !.log = {}, !.arg = v, !.wrote = FALSE, !.payload = 0]

\* iir.coefficients = v
CoefficientsSet(v, outcome) ==
    /\ coef' = CoefficientsSetter(CoefFresh(coef, v), v, outcome)
    /\ UNCHANGED <<clientVars, moduleVars, rt, fx, tc, ut, wb, hm, rp>>

CoefNext ==
    \E v \in MatrixInputs, outcome \in {"stored", "lost"} : CoefficientsSet(v, outcome)

-----------------------------------------------------------------------------
(* Two callers on one MonitorClient.  reads, writes, _reads, _writes,       *)
(* emptybuffer and try_n_times take no lock: each socket call of a thread    *)
(* is a step, and the steps of the two threads interleave freely.  Each      *)
(* thread makes one call; the client has no restart callback; the server     *)
(* answers within the timeout, so that a recv times out only when the bytes  *)
(* it waits for are not coming.                                               *)

Callers == {1, 2}
Other(c) == 3 - c

\* the lengths the two callers read, and the sequences they write
TcLengths == {0, 1}
TcValues == {<<>>, <<WordAt(1)>>}

\* the frame of one call of reads or writes on a thread
TcIdle ==
    [pc |-> "idle", fn |-> "r", addr |-> MemBase, value |-> NoneValue, i |-> 0,
     header |-> <<>>, data |-> <<>>, result |-> Pending, foreign |-> FALSE]

TcStart ==
    [sock |-> "open", peerClosed |-> FALSE, req |-> <<>>, stream |-> <<>>,
     mem |-> Paged(<<0>>), th |-> <<TcIdle, TcIdle>>,
     closed |-> "no", sentinel |-> FALSE, swallowed |-> "none"]

TcBytes(s) == AsSeq([k \in 1..Len(s) |-> s[k].b])
\* whether any of the bytes was sent in reply to a request of another caller
TcForeign(s, c) == \E k \in 1..Len(s) : s[k].by # c
TcTagged(bytes, c) == AsSeq([k \in 1..Len(bytes) |-> [b |-> bytes[k], by |-> c]])

\* the header a thread's attempt builds from addr and value
TcHeader(t) ==
    IF t.fn = "r"
    THEN Header(OpRead, ClampLength(t.value.n), t.addr)
    ELSE Header(OpWrite, Len(Truncate(t.value.v)), t.addr)

TcBody(t) == IF t.fn = "r" THEN <<>> ELSE ToBytes(Truncate(t.value.v))

TcWanted(t) ==
    IF t.fn = "r" THEN 4 * ClampLength(t.value.n) + HeaderLen ELSE HeaderLen

\* try_n_times: the next pass of the loop, or None when range(n) is exhausted
TcNextIteration(t, newValue) ==
    [t EXCEPT !.value = newValue, !.i = t.i + 1,
              !.header = <<>>, !.data = <<>>,
              !.pc = IF LoopContinues(t.i) THEN "loop" ELSE "done",
              !.result = IF LoopContinues(t.i) THEN t.result
                         ELSE Returned(NoneValue)]

\* the attempt has all its bytes: return them, or start to drain
TcReceived(t, bytes) ==
    IF InSync(bytes, t.header)
    THEN [t EXCEPT !.pc = "done", !.data = bytes,
                   !.result = Returned(IF t.fn = "r"
                                       THEN SeqValue(FromBuffer(Drop(bytes, HeaderLen)))
                                       ELSE TrueValue)]
    ELSE [t EXCEPT !.pc = "drain", !.data = <<>>]

\* reads(addr, length) on thread c
TcReads(c, a, length) ==
    /\ tc.th[c].pc = "idle"
    /\ tc' = [tc EXCEPT !.th[c] = [TcIdle EXCEPT !.pc = "loop", !.fn = "r",
                                                 !.addr = a,
                                                 !.value = LenValue(length)]]
    /\ UNCHANGED <<clientVars, moduleVars, rt, fx, coef, ut, wb, hm, rp>>

\* writes(addr, values) on thread c
TcWrites(c, a, values) ==
    /\ tc.th[c].pc = "idle"
    /\ tc' = [tc EXCEPT !.th[c] = [TcIdle EXCEPT !.pc = "loop", !.fn = "w",
                                                 !.addr = a,
                                                 !.value = SeqValue(values)]]
    /\ UNCHANGED <<clientVars, moduleVars, rt, fx, coef, ut, wb, hm, rp>>

\* function(addr, None) raises TypeError, which try_n_times does not catch
TcTypeError(c) ==
    /\ tc.th[c].pc = "loop" /\ tc.th[c].value = NoneValue
    /\ tc' = [tc EXCEPT !.th[c].pc = "done", !.th[c].result = Raised("TypeError")]
    /\ UNCHANGED <<clientVars, moduleVars, rt, fx, coef, ut, wb, hm, rp>>

\* self.socket.send(header ...) of thread c: whatever the other thread is doing
TcSend(c) ==
    /\ tc.th[c].pc = "loop" /\ tc.th[c].value # NoneValue
    /\ tc.sock = "open" /\ ~tc.peerClosed
    /\ tc' = [tc EXCEPT !.th[c].pc = "recv",
                        !.th[c].header = TcHeader(tc.th[c]),
                        !.th[c].data = <<>>,
                        !.req = Append(tc.req, [hdr |-> TcHeader(tc.th[c]),
                                                body |-> TcBody(tc.th[c]),
                                                by |-> c])]
    /\ UNCHANGED <<clientVars, moduleVars, rt, fx, coef, ut, wb, hm, rp>>

\* self.socket.send raises socket.error: the socket is closed or the peer is gone
TcSendFails(c) ==
    /\ tc.th[c].pc = "loop" /\ tc.th[c].value # NoneValue
    /\ tc.sock = "closed" \/ tc.peerClosed
    /\ tc' = [tc EXCEPT !.th[c] = TcNextIteration(tc.th[c], tc.th[c].value)]
    /\ UNCHANGED <<clientVars, moduleVars, rt, fx, coef, ut, wb, hm, rp>>

\* self.socket.recv(k) of thread c returns the next n bytes of the connection:
\* all that have arrived, up to the k it asked for
TcRecv(c, n) ==
    /\ tc.th[c].pc = "recv" /\ tc.sock = "open"
    /\ n >= 1
    /\ n = Min(TcWanted(tc.th[c]) - Len(tc.th[c].data), Len(tc.stream))
    /\ LET t == tc.th[c]
           chunk == Take(tc.stream, n)
           bytes == t.data \o TcBytes(chunk)
           got == [t EXCEPT !.foreign = t.foreign \/ TcForeign(chunk, c)]
       IN tc' = [tc EXCEPT !.stream = Drop(tc.stream, n),
                           !.th[c] = IF t.fn = "r" /\ Len(bytes) < TcWanted(t)
                                     THEN [got EXCEPT !.data = bytes]
                                     ELSE TcReceived(got, bytes)]
    /\ UNCHANGED <<clientVars, moduleVars, rt, fx, coef, ut, wb, hm, rp>>

\* self.socket.recv raises: socket.timeout when nothing arrived within the
\* second, socket.error when the socket has been closed
TcRecvRaises(c) ==
    /\ tc.th[c].pc = "recv"
    /\ tc.sock = "closed" \/ (tc.stream = <<>> /\ tc.req = <<>> /\ ~tc.peerClosed)
    /\ tc' = [tc EXCEPT !.th[c] = TcNextIteration(tc.th[c], tc.th[c].value)]
    /\ UNCHANGED <<clientVars, moduleVars, rt, fx, coef, ut, wb, hm, rp>>

\* self.socket.recv returns b'': the peer has closed.  _reads stays in its
\* while loop; _writes compares b'' with the header
TcRecvEof(c) ==
    /\ tc.th[c].pc = "recv" /\ tc.sock = "open"
    /\ tc.stream = <<>> /\ tc.peerClosed
    /\ tc.th[c].fn = "w"
    /\ tc' = [tc EXCEPT !.th[c] = TcReceived(tc.th[c], tc.th[c].data)]
    /\ UNCHANGED <<clientVars, moduleVars, rt, fx, coef, ut, wb, hm, rp>>

\* emptybuffer on thread c: one recv(16384) that returned n > 0 bytes.  Its
\* range(100) is never exhausted: the replies to the 2 * 5 requests of the two
\* calls have fewer than 100 bytes after the first 8 + 4
TcDrain(c, n) ==
    /\ tc.th[c].pc = "drain" /\ tc.sock = "open"
    /\ n >= 1
    /\ n = Min(DrainRecvSize, Len(tc.stream))
    /\ tc' = [tc EXCEPT !.stream = Drop(tc.stream, n),
                        !.th[c].foreign =
                            tc.th[c].foreign \/ TcForeign(Take(tc.stream, n), c)]
    /\ UNCHANGED <<clientVars, moduleVars, rt, fx, coef, ut, wb, hm, rp>>

\* emptybuffer on thread c ends: recv returned b'' (the peer has closed) and
\* the attempt returns None, or recv raised and try_n_times caught it
TcDrainEnds(c) ==
    /\ tc.th[c].pc = "drain"
    /\ tc.sock = "closed" \/ (tc.stream = <<>> /\ (tc.req = <<>> \/ tc.peerClosed))
    /\ tc' = [tc EXCEPT !.th[c] =
                  TcNextIteration(tc.th[c],
                                  IF tc.sock = "open" /\ tc.peerClosed
                                  THEN NoneValue ELSE tc.th[c].value)]
    /\ UNCHANGED <<clientVars, moduleVars, rt, fx, coef, ut, wb, hm, rp>>

\* the server handles the oldest request and replies; the close sentinel has
\* no reply and ends the connection
TcServer ==
    /\ tc.req # <<>> /\ ~tc.peerClosed
    /\ LET frame == Head(tc.req)
       IN IF frame.hdr[1] = OpClose
          THEN tc' = [tc EXCEPT !.req = <<>>, !.peerClosed = TRUE]
          ELSE tc' = [tc EXCEPT !.req = Tail(tc.req),
                                !.mem = ServerMem(tc.mem, frame),
                                !.stream = tc.stream
                                    \o TcTagged(ServerReply(tc.mem, frame), frame.by)]
    /\ UNCHANGED <<clientVars, moduleVars, rt, fx, coef, ut, wb, hm, rp>>

\* the steps of a thread that has the connection to itself
TcAloneStep(c) ==
    \/ \E a \in Addrs, n \in TcLengths : TcReads(c, a, n)
    \/ \E a \in Addrs, v \in TcValues : TcWrites(c, a, v)
    \/ TcSend(c)
    \/ \E n \in 1..(4 + HeaderLen) : TcRecv(c, n)
    \/ TcRecvRaises(c)
    \/ TcDrainEnds(c)

\* the steps of a thread; emptybuffer finds bytes on the connection only when
\* another thread has requests answered
TcCallerStep(c) ==
    \/ TcAloneStep(c)
    \/ \E n \in 1..(2 * (4 + HeaderLen)) : TcDrain(c, n)

TwoCallersNext ==
    \/ \E c \in Callers : TcCallerStep(c)
    \/ TcServer

\* a close() that guards its send only
CloseGuardsSendOnly(s, sendRaises, closeRaises) ==
    IF sendRaises
    THEN [s EXCEPT !.closed = "returned", !.swallowed = "send"]
    ELSE [s EXCEPT !.req = Append(s.req, [hdr |-> Header(OpClose, 0, 0),
                                          body |-> <<>>, by |-> 0]),
                   !.sentinel = TRUE,
                   !.sock = "closed",
                   !.closed = IF closeRaises THEN "raised" ELSE "returned"]

\* close(), with the socket calls that raise socket.error named: the frame is
\* sent and the socket closed unless send raised; except socket.error: return
Close(s, sendRaises, closeRaises) ==
    IF sendRaises
    THEN [s EXCEPT !.closed = "returned", !.swallowed = "send"]
    ELSE [s EXCEPT !.req = Append(s.req, [hdr |-> Header(OpClose, 0, 0),
                                          body |-> <<>>, by |-> 0]),
                   !.sentinel = TRUE,
                   !.sock = "closed",
                   !.closed = "returned",
                   !.swallowed = IF closeRaises THEN "close" ELSE "none"]

\* close() called on the client (by a thread, by restart or by __del__)
TcClose(sendRaises, closeRaises) ==
    /\ (tc.sock = "closed" \/ tc.peerClosed) => sendRaises
    /\ tc' = Close([tc EXCEPT !.sentinel = FALSE, !.swallowed = "none"],
                   sendRaises, closeRaises)
    /\ UNCHANGED <<clientVars, moduleVars, rt, fx, coef, ut, wb, hm, rp>>

\* the peer ends the connection
TcPeerCloses ==
    /\ ~tc.peerClosed
    /\ tc' = [tc EXCEPT !.peerClosed = TRUE, !.req = <<>>]
    /\ UNCHANGED <<clientVars, moduleVars, rt, fx, coef, ut, wb, hm, rp>>

\* one thread that reads and writes while the client is closed under it
CloseNext ==
    \/ TcAloneStep(1)
    \/ TcTypeError(1)
    \/ TcSendFails(1)
    \/ TcRecvEof(1)
    \/ \E sendRaises, closeRaises \in BOOLEAN : TcClose(sendRaises, closeRaises)
    \/ TcPeerCloses
    \/ TcServer

-----------------------------------------------------------------------------
(* The list utilities (pyrpl_utils.py) and their callers: the metaclass of   *)
(* the modules (modules.py) and StemLab.makemodules (stemlab.py).  A name is *)
(* the sequence of its characters.                                            *)

\* the longest list a caller passes
MaxNames == 3

Last(s) == s[Len(s)]
Front(s) == SubSeq(s, 1, Len(s) - 1)
Elements(s) == {s[k] : k \in DOMAIN s}

\* a deduplication that keeps the first occurrence of each element
RECURSIVE UniqueFirstFrom(_, _)
UniqueFirstFrom(list, acc) ==
    IF list = <<>> THEN acc
    ELSE UniqueFirstFrom(Tail(list),
                         IF Head(list) \in Elements(acc) THEN acc
                         ELSE Append(acc, Head(list)))

UniqueListFirstWins(list) == UniqueFirstFrom(list, <<>>)

\* the loop of unique_list: for attr in reversed(nonunique_list), with
\* unique_list.insert(0, attr) when attr is not in unique_list yet
RECURSIVE UniqueFrom(_, _)
UniqueFrom(list, acc) ==
    IF list = <<>> THEN acc
    ELSE UniqueFrom(Front(list),
                    IF Last(list) \in Elements(acc) THEN acc
                    ELSE <<Last(list)>> \o acc)

\* unique_list(nonunique_list)
UniqueList(list) == UniqueFrom(list, <<>>)

\* the lists of the bases, from the last base to the first: for base in
\* reversed(bases): _setup_attributes += base._setup_attributes
RECURSIVE ReversedBases(_, _)
ReversedBases(bases, field) ==
    IF bases = <<>> THEN <<>>
    ELSE Last(bases)[field] \o ReversedBases(Front(bases), field)

\* ModuleMetaClass.__init__, 1b: _module_attributes of the class
ModuleAttributes(bases, ownModules) ==
    UniqueList(ReversedBases(bases, "modules") \o ownModules)

\* ModuleMetaClass.__init__, 1a to 1d: _setup_attributes of the class
MetaSetupAttributes(bases, own, ownModules) ==
    UniqueList(ReversedBases(bases, "setup") \o own
               \o ModuleAttributes(bases, ownModules))

\* str.lower() of a character and of a name
LowerChar(ch) == IF ch = "A" THEN "a" ELSE IF ch = "B" THEN "b" ELSE ch
Lower(name) == AsSeq([k \in DOMAIN name |-> LowerChar(name[k])])

Digits == <<"0", "1", "2", "3", "4", "5", "6", "7", "8", "9">>
\* str(n) for n < 10
Str(n) == <<Digits[n + 1]>>

\* all_names.count(name)
Occurrences(all, name) == Cardinality({k \in DOMAIN all : all[k] = name})

\* the numbers n of range(occurences) for which name + str(n) is not taken
FreeNumbers(all, name, final) ==
    {n \in 0..(Occurrences(all, name) - 1) : (name \o Str(n)) \notin Elements(final)}

\* the body of the loop over all_names: the name as it is when it occurs once,
\* and else the first name + str(n) not in final_names, if there is one
Named(all, name, final) ==
    IF Occurrences(all, name) = 1 THEN Append(final, name)
    ELSE IF FreeNumbers(all, name, final) = {} THEN final
    ELSE Append(final, name \o Str(CHOOSE n \in FreeNumbers(all, name, final) :
                                \A o \in FreeNumbers(all, name, final) : n <= o))

RECURSIVE NamesFrom(_, _, _)
NamesFrom(all, k, final) ==
    IF k > Len(all) THEN final
    ELSE NamesFrom(all, k + 1, Named(all, all[k], final))

\* get_unique_name_list_from_class_list(cls_list), a class given by its __name__
UniqueNames(classes) ==
    NamesFrom(AsSeq([k \in DOMAIN classes |-> Lower(classes[k])]), 1, <<>>)

\* the names of attributes and of classes that callers pass
AttrNames == {<<"a">>, <<"b">>, <<"c">>}
ClassNames == {<<"A">>, <<"a">>, <<"A", "0">>, <<"A", "1">>, <<"B">>}
ListsOf(S) == UNION {[1..n -> S] : n \in 0..MaxNames}
BaseInputs ==
    {[setup |-> <<<<"a">>, <<"b">>>>, modules |-> <<>>],
     [setup |-> <<<<"b">>, <<"c">>>>, modules |-> <<<<"m">>>>],
     [setup |-> <<<<"c">>, <<"a">>, <<"m">>>>, modules |-> <<<<"a">>>>]}
OwnInputs == {<<>>, <<<<"a">>>>, <<<<"b">>, <<"a">>>>}
OwnModuleInputs == {<<>>, <<<<"m">>>>}

UtStart == [fn |-> "none", lists |-> <<>>, bases |-> <<>>, out |-> <<>>]

\* a caller calls unique_list
UniqueListCall(list) ==
    /\ ut' = [fn |-> "unique_list", lists |-> <<list>>, bases |-> <<>>,
              out |-> UniqueList(list)]
    /\ UNCHANGED <<clientVars, moduleVars, rt, fx, coef, tc, wb, hm, rp>>

\* a class statement whose metaclass is ModuleMetaClass
MetaInit(bases, own, ownModules) ==
    /\ ut' = [fn |-> "meta", lists |-> <<own, ownModules>>, bases |-> bases,
              out |-> MetaSetupAttributes(bases, own, ownModules)]
    /\ UNCHANGED <<clientVars, moduleVars, rt, fx, coef, tc, wb, hm, rp>>

\* StemLab.makemodules: names = get_unique_name_list_from_class_list(cls_modules)
MakeModules(classes) ==
    /\ ut' = [fn |-> "names", lists |-> <<classes>>, bases |-> <<>>,
              out |-> UniqueNames(classes)]
    /\ UNCHANGED <<clientVars, moduleVars, rt, fx, coef, tc, wb, hm, rp>>

UtilsNext ==
    \/ \E list \in ListsOf(AttrNames) : UniqueListCall(list)
    \/ \E bases \in UNION {[1..n -> BaseInputs] : n \in 0..2},
          own \in OwnInputs, ownModules \in OwnModuleInputs :
           MetaInit(bases, own, ownModules)
    \/ \E classes \in ListsOf(ClassNames) : MakeModules(classes)

\* the parts modelled on their own, at rest
-----------------------------------------------------------------------------
(* HardwareModule._to_pyint and _from_pyint (modules.py) *)

\* bitlengths up to this one are tried with every value of their range
MaxSmallBits == 5
\* bitlength=14
DefaultBitlength == 14

Half == 2^16

\* A number n is kept as [dtype, hi, lo] with n = hi * 2^16 + lo and
\* 0 <= lo < 2^16, so that the values of a 32-bit word can all be told apart.
PyInt(n) == [dtype |-> "int", hi |-> n \div Half, lo |-> n % Half]

\* np.uint32(v)
Uint32(x) == [dtype |-> "uint32", hi |-> x.hi % Half, lo |-> x.lo]

\* The type of the result of an operation on x and a Python int.  setup.py
\* asks for numpy>=1.9: before numpy 2 a numpy scalar and a Python int
\* give int64, from numpy 2 on (NEP 50) the numpy scalar's type is kept.
Numpy == {"legacy", "nep50"}
Promoted(x, numpy) ==
    IF x.dtype = "uint32" THEN (IF numpy = "nep50" THEN "uint32" ELSE "int64")
    ELSE x.dtype

\* v & (2 ** bitlength - 1)
AndMask(x, bitlength, numpy) ==
    [dtype |-> Promoted(x, numpy),
     hi |-> IF bitlength <= 16 THEN 0 ELSE x.hi % (2^(bitlength - 16)),
     lo |-> IF bitlength < 16 THEN x.lo % (2^bitlength) ELSE x.lo]

\* v >> (bitlength - 1), of a v that AndMask gave
SignBit(x, bitlength) ==
    IF bitlength <= 16 THEN x.lo \div (2^(bitlength - 1))
    ELSE x.hi \div (2^(bitlength - 17))

\* the result of an operation in the type it has: a uint32 wraps
InType(dtype, hi, lo) ==
    [dtype |-> dtype, hi |-> IF dtype = "uint32" THEN hi % Half ELSE hi, lo |-> lo]

\* v - 2 ** bitlength
MinusPower(x, bitlength, numpy) ==
    IF bitlength >= 16
    THEN InType(Promoted(x, numpy), x.hi - 2^(bitlength - 16), x.lo)
    ELSE IF x.lo >= 2^bitlength
    THEN InType(Promoted(x, numpy), x.hi, x.lo - 2^bitlength)
    ELSE InType(Promoted(x, numpy), x.hi - 1, (x.lo + Half) - 2^bitlength)

\* int(v)
AsPyInt(x) == [x EXCEPT !.dtype = "int"]

\* self._to_pyint(v, bitlength)
ToPyint(v, bitlength, numpy) ==
    AsPyInt(IF SignBit(AndMask(v, bitlength, numpy), bitlength) # 0
            THEN MinusPower(AndMask(v, bitlength, numpy), bitlength, numpy)
            ELSE AndMask(v, bitlength, numpy))

\* self._from_pyint(v, bitlength), v a Python int
FromPyint(v, bitlength) ==
    Uint32(PyInt((IF v < 0 THEN v + 2^bitlength ELSE v) % (2^bitlength)))

PyintBits == (1..MaxSmallBits) \cup {DefaultBitlength, DefaultBitlength + 3}

\* the signed values of a bitlength: all of them, or the ends and the middle
PyintValues(bitlength) ==
    IF bitlength <= MaxSmallBits
    THEN (0 - 2^(bitlength - 1))..(2^(bitlength - 1) - 1)
    ELSE {0 - 2^(bitlength - 1), 0 - 1, 0, 1, 2^(bitlength - 1) - 1}

\* the words of a register that hold a value of the bitlength
PyintWords(bitlength) ==
    IF bitlength <= MaxSmallBits THEN 0..(2^bitlength - 1)
    ELSE {0, 2^(bitlength - 1) - 1, 2^(bitlength - 1), 2^bitlength - 1}

HmStart ==
    [numpy |-> "legacy", fn |-> "none", v |-> 0, bitlength |-> DefaultBitlength,
     word |-> PyInt(0), out |-> PyInt(0)]

\* word = self._from_pyint(v, bitlength)
FromPyintCall(v, bitlength) ==
    /\ hm' = [hm EXCEPT !.fn = "_from_pyint", !.v = v, !.bitlength = bitlength,
                        !.word = FromPyint(v, bitlength), !.out = PyInt(0)]
    /\ UNCHANGED <<clientVars, moduleVars, rt, fx, coef, tc, ut, wb, rp>>

\* self._to_pyint(word, bitlength), of the word _from_pyint has just returned
ToPyintCall ==
    /\ hm.fn = "_from_pyint"
    /\ hm' = [hm EXCEPT !.fn = "_to_pyint",
                        !.out = ToPyint(hm.word, hm.bitlength, hm.numpy)]
    /\ UNCHANGED <<clientVars, moduleVars, rt, fx, coef, tc, ut, wb, rp>>

\* self._to_pyint(self._read(addr), bitlength): _read gives a Python int
ToPyintOfRead(word, bitlength) ==
    /\ hm' = [hm EXCEPT !.fn = "_to_pyint(_read)", !.v = 0, !.bitlength = bitlength,
                        !.word = PyInt(word),
                        !.out = ToPyint(PyInt(word), bitlength, hm.numpy)]
    /\ UNCHANGED <<clientVars, moduleVars, rt, fx, coef, tc, ut, wb, rp>>

PyintNext ==
    \/ \E bitlength \in PyintBits :
           \E v \in PyintValues(bitlength) : FromPyintCall(v, bitlength)
    \/ ToPyintCall
    \/ \E bitlength \in PyintBits :
           \E word \in PyintWords(bitlength) : ToPyintOfRead(word, bitlength)

-----------------------------------------------------------------------------
(* The StemLab object and its slaves (stemlab.py) *)

\* the number of slaves made
MaxSlaves == 2

\* A server name is kept as its first part and the ports whose str() was
\* appended to it, in order.
ServerName(base) == [base |-> base, ports |-> <<>>]
\* name + str(port)
PlusStr(name, port) == [name EXCEPT !.ports = Append(@, port)]

\* defaultparameters, the dict of the module stemlab.py: the keys that
\* make_a_slave sets
defaultparameters ==
    [port |-> 2222, autostart |-> TRUE, reloadserver |-> FALSE, reloadfpga |-> TRUE,
     monitor_server_name |-> ServerName("monitor_server"), silence_env |-> FALSE]

\* d.update(kwargs), kwargs a record of some of the keys
DictUpdate(d, kwargs) ==
    [port |-> IF "port" \in DOMAIN kwargs THEN kwargs.port ELSE d.port,
     autostart |-> IF "autostart" \in DOMAIN kwargs THEN kwargs.autostart
                   ELSE d.autostart,
     reloadserver |-> IF "reloadserver" \in DOMAIN kwargs THEN kwargs.reloadserver
                      ELSE d.reloadserver,
     reloadfpga |-> IF "reloadfpga" \in DOMAIN kwargs THEN kwargs.reloadfpga
                    ELSE d.reloadfpga,
     monitor_server_name |-> IF "monitor_server_name" \in DOMAIN kwargs
                             THEN kwargs.monitor_server_name
                             ELSE d.monitor_server_name,
     silence_env |-> IF "silence_env" \in DOMAIN kwargs THEN kwargs.silence_env
                     ELSE d.silence_env]

\* The state holds the dicts by number, and each StemLab object holds the
\* number of the dict that its attribute parameters refers to.  Dict 1 is
\* defaultparameters.
ModuleDict == 1

NoServer == [by |-> 0, port |-> 0, name |-> ServerName("")]

\* self.startserver(), by the object number o: the server program named
\* parameters['monitor_server_name'] is started on parameters['port']
StartServer(st, o) ==
    [st EXCEPT !.started = [by |-> o,
                            port |-> st.dicts[st.objs[o].parameters].port,
                            name |-> st.dicts[st.objs[o].parameters].monitor_server_name]]

\* StemLab(**kwargs): the new object is the last of objs
Construct(st, kwargs) ==
    IF DictUpdate(st.dicts[ModuleDict], kwargs).autostart
    THEN StartServer([st EXCEPT !.dicts[ModuleDict] = DictUpdate(@, kwargs),
                                !.objs = Append(@, [parameters |-> ModuleDict,
                                                    slaves |-> <<>>, master |-> 0])],
                     Len(st.objs) + 1)
    ELSE [st EXCEPT !.dicts[ModuleDict] = DictUpdate(@, kwargs),
                    !.objs = Append(@, [parameters |-> ModuleDict,
                                        slaves |-> <<>>, master |-> 0])]

\* the parameters a constructor call gives its object
Given(kwargs) ==
    [port |-> DictUpdate(defaultparameters, kwargs).port,
     monitor_server_name |-> DictUpdate(defaultparameters, kwargs).monitor_server_name,
     reloadfpga |-> DictUpdate(defaultparameters, kwargs).reloadfpga,
     autostart |-> DictUpdate(defaultparameters, kwargs).autostart]

\* r = StemLab(**kwargs), the master, in a fresh interpreter
Constructed(kwargs) ==
    Construct([dicts |-> <<defaultparameters>>, objs |-> <<>>, started |-> NoServer,
               op |-> "StemLab", by |-> 1, given |-> Given(kwargs)],
              kwargs)

RpStart == Constructed([port |-> 2222])

Master == 1

\* the four parameters of the object o, as o.parameters[...] gives them
ParametersOf(st, o) ==
    [port |-> st.dicts[st.objs[o].parameters].port,
     monitor_server_name |-> st.dicts[st.objs[o].parameters].monitor_server_name,
     reloadfpga |-> st.dicts[st.objs[o].parameters].reloadfpga,
     autostart |-> st.dicts[st.objs[o].parameters].autostart]

\* port, as make_a_slave sets it when it is None
SlavePort(st, hasPort, port) ==
    IF hasPort THEN port
    ELSE st.dicts[st.objs[Master].parameters].port
         + Len(st.objs[Master].slaves) * 10 + 1

\* monitor_server_name, as make_a_slave sets it when it is None
SlaveName(st, hasName, name, port) ==
    IF hasName THEN name
    ELSE PlusStr(st.dicts[st.objs[Master].parameters].monitor_server_name, port)

\* slaveparameters
SlaveParameters(st, port, name) ==
    DictUpdate(st.dicts[st.objs[Master].parameters],
               [port |-> port, autostart |-> TRUE, reloadfpga |-> FALSE,
                reloadserver |-> FALSE, monitor_server_name |-> name,
                silence_env |-> TRUE])

\* r._master = self; self._slaves.append(r), r the last of objs
Enlist(st) ==
    [st EXCEPT !.objs[Len(st.objs)].master = Master,
               !.objs[Master].slaves = Append(@, Len(st.objs))]

\* master.make_a_slave(port, monitor_server_name)
MakeASlave(hasPort, port, hasName, name) ==
    /\ Len(rp.objs[Master].slaves) < MaxSlaves
    /\ rp' = [Enlist(Construct(rp, SlaveParameters(rp, SlavePort(rp, hasPort, port),
                          SlaveName(rp, hasName, name,
                                    SlavePort(rp, hasPort, port)))))
                  EXCEPT !.op = "make_a_slave", !.by = Master]
    /\ UNCHANGED <<clientVars, moduleVars, rt, fx, coef, tc, ut, wb, hm>>

\* what restartserver leaves in parameters['port']; random.randint(2223, 50000)
\* is one of its two ends here
NewPorts(old, hasPort, port) ==
    IF ~hasPort THEN {old} ELSE IF port < 0 THEN {2223, 50000} ELSE {port}

\* o.restartserver(port), o the master or one of its slaves
RestartServer(o, hasPort, port) ==
    /\ o \in DOMAIN rp.objs
    /\ \E new \in NewPorts(rp.dicts[rp.objs[o].parameters].port, hasPort, port) :
           rp' = [StartServer([rp EXCEPT !.dicts[rp.objs[o].parameters].port = new], o)
                     EXCEPT !.op = "restartserver", !.by = o,
                            !.given.port = IF o = Master /\ hasPort THEN new ELSE @]
    /\ UNCHANGED <<clientVars, moduleVars, rt, fx, coef, tc, ut, wb, hm>>

MasterKwargs == {[port |-> 2222], [port |-> 3000, reloadfpga |-> FALSE]}
SlavePorts == {4000}
SlaveNames == {ServerName("slave_server")}
RestartPorts == {0 - 1, 5000}

StemLabNext ==
    \/ \E hasPort \in BOOLEAN, port \in SlavePorts, hasName \in BOOLEAN,
          name \in SlaveNames : MakeASlave(hasPort, port, hasName, name)
    \/ \E o \in 1..(MaxSlaves + 1), hasPort \in BOOLEAN, port \in RestartPorts :
           RestartServer(o, hasPort, port)

AuxIdle ==
    /\ fx = FxStart /\ coef = CoefStart(64, 0) /\ tc = TcStart /\ ut = UtStart
    /\ wb = WbStart /\ hm = HmStart /\ rp = RpStart

-----------------------------------------------------------------------------
(* The specifications *)

Init == ClientInit /\ ModuleIdle /\ rt = RtStart /\ AuxIdle

SpecClient == Init /\ [][ClientNext]_vars

\* the client while only the module is watched
ClientIdle == ClientInit /\ hasRestart = FALSE

IirInit == ClientIdle /\ ModuleInit /\ rt = RtStart /\ AuxIdle

RoundTripInit ==
    /\ ClientStart /\ hasRestart = FALSE
    /\ mem = Paged(AsSeq([j \in 1..(MaxWriteLen + 1) |-> 0]))
    /\ ModuleIdle
    /\ rt = RtStart
    /\ AuxIdle

\* the steps of the client itself: it runs, and a recv returns or times out
\* within the second
ClientStep ==
    \/ AttemptTypeError
    \/ AttemptSend
    \/ \E o \in RestartOutcomes : AttemptSendFails(o)
    \/ \E n \in 1..(4 * MaxLen + HeaderLen) : RecvChunk(n)
    \/ \E o \in RestartOutcomes : RecvTimeout(o)
    \/ RecvEof
    \/ \E n \in 1..(4 * MaxLen + HeaderLen) : DrainChunk(n)
    \/ DrainEof
    \/ DrainLimit
    \/ \E o \in RestartOutcomes : DrainTimeout(o)

\* the server handles a request it has received
ServerStep == \E mode \in {"echo", "garble", "flood"} : ServerRespond(mode)

\* the client with a caller that waits for its calls: the client and the server
\* keep running
SpecClientLive ==
    Init /\ [][ClientNext]_vars /\ WF_vars(ClientStep) /\ WF_vars(ServerStep)

SpecRoundTrip == RoundTripInit /\ [][RoundTripNext]_vars

SpecIir == IirInit /\ [][IirNext]_vars

SpecSelect == IirInit /\ [][SelectNext]_vars

SpecSetupRaising == IirInit /\ [][SetupRaisingNext]_vars

SpecSelectRaising == IirInit /\ [][SelectRaisingNext]_vars

SpecOwner == IirInit /\ [][OwnerNext]_vars

SpecWith == IirInit /\ [][WithNext]_vars

CodecInit == ClientIdle /\ ModuleIdle /\ rt = RtStart /\ AuxIdle

SpecCodec == CodecInit /\ [][CodecNext]_vars

CoefInit ==
    /\ ClientIdle /\ ModuleIdle /\ rt = RtStart /\ fx = FxStart
    /\ tc = TcStart /\ ut = UtStart /\ wb = WbStart /\ hm = HmStart /\ rp = RpStart
    /\ \E bits \in {<<32, 0>>, <<64, MaxShift>>} : coef = CoefStart(bits[1], bits[2])

SpecCoef == CoefInit /\ [][CoefNext]_vars

PyintInit ==
    /\ ClientIdle /\ ModuleIdle /\ rt = RtStart /\ fx = FxStart
    /\ coef = CoefStart(64, 0) /\ tc = TcStart /\ ut = UtStart /\ wb = WbStart
    /\ rp = RpStart
    /\ \E numpy \in Numpy : hm = [HmStart EXCEPT !.numpy = numpy]

SpecPyint == PyintInit /\ [][PyintNext]_vars

StemLabInit ==
    /\ ClientIdle /\ ModuleIdle /\ rt = RtStart /\ fx = FxStart
    /\ coef = CoefStart(64, 0) /\ tc = TcStart /\ ut = UtStart /\ wb = WbStart
    /\ hm = HmStart
    /\ \E kwargs \in MasterKwargs : rp = Constructed(kwargs)

SpecStemLab == StemLabInit /\ [][StemLabNext]_vars

SpecTwoCallers == CodecInit /\ [][TwoCallersNext]_vars

SpecClose == CodecInit /\ [][CloseNext]_vars

SpecUtils == CodecInit /\ [][UtilsNext]_vars

-----------------------------------------------------------------------------
(* Properties of MonitorClient, checked under SpecClient *)

\* C1: desync recovery.  A public read or write that met exactly one corrupted
\* response and no other fault, each of its attempts beginning on a clean
\* connection, has succeeded when it ends.
C1_DesyncRecovery ==
    (/\ cpc = "done"
     /\ nGarbled = 1 /\ ~faulted /\ ~cbFailed)
    => result.kind = "ok"

\* C2: retry exhaustion.  No call makes more than 5 attempts, and a call whose
\* 5 attempts all ended in a caught socket error, with every reconnect
\* callback returning a port, returns None.
C2_RetryExhaustion ==
    /\ nAttempts <= MaxTries
    /\ (cpc = "done" /\ allCaught /\ nAttempts = MaxTries /\ ~cbFailed)
       => result.kind = "none"

C2_Witness ==
    /\ cpc = "done" /\ allCaught /\ nAttempts = MaxTries
    /\ hasRestart /\ ~cbFailed
    /\ result.kind = "none"

\* C3: a call returns a value only from an attempt whose first 8 received
\* bytes equal the header that attempt sent: a read returns the words that
\* follow that echo, a write returns True for a reply that is the echo alone.
C3_NoMismatchAccepted ==
    (cpc = "done" /\ result.kind = "ok")
    => /\ Take(data, HeaderLen) = header
       /\ header = Header(IF fn = "r" THEN OpRead ELSE OpWrite,
                          IF fn = "r" THEN arg.n ELSE Len(arg.v), addr)
       /\ fn = "r" => result.val = SeqValue(FromBuffer(Drop(data, HeaderLen)))
       /\ fn = "w" => result.val = TrueValue /\ data = header

\* a call that rejected a corrupted response and returned a value later
C3_Witness ==
    /\ cpc = "done" /\ result.kind = "ok"
    /\ nGarbled = 1 /\ nAttempts > 1

-----------------------------------------------------------------------------
(* Properties of setup and of the do_setup guard, checked under SpecIir *)

\* C4: a call of setup that returns has run _setup exactly once: none of the
\* assignments it makes, the master poles and zeros lists included, has invoked
\* _setup or another setup.
C4_SetupRunsOnce ==
    (callOp = "setup" /\ iir.exc = "none")
    => Count(iir.trace, "_setup") = 1

\* C5: the do_setup guard.  The flag is true when the block is entered and false
\* when it is left, so that it is false after every call; a block that raised
\* leaves a warning in the log behind its exit, and its exception reaches the
\* caller.
C5_DoSetupGuard ==
    /\ ~iir.setup_ongoing
    /\ \A k \in DOMAIN iir.trace :
          /\ iir.trace[k].ev = "enter" => iir.trace[k].flag
          /\ iir.trace[k].ev = "exit" => ~iir.trace[k].flag
          /\ iir.trace[k].a = "raised while _setup_ongoing"
             => /\ k > 1 /\ iir.trace[k - 1].ev = "exit"
                /\ iir.exc = iir.trace[k].b /\ iir.exc # "none"
    /\ (callOp = "block" /\ callArg)
       => /\ iir.exc = "BaseException"
          /\ [k \in DOMAIN iir.trace |-> iir.trace[k].ev] = <<"enter", "exit", "warning">>
    /\ (iir.exc # "none" /\ Count(iir.trace, "enter") > 0)
       => iir.trace[Len(iir.trace)].a = "raised while _setup_ongoing"

\* a guarded block raised, outside a setup and inside _setup
C5_Witness ==
    \/ callOp = "block" /\ callArg /\ iir.exc = "BaseException" /\ ~iir.setup_ongoing
    \/ callOp = "set" /\ iir.exc = "Exception" /\ ~iir.setup_ongoing
       /\ Count(iir.trace, "_setup") = 1 /\ Count(iir.trace, "warning") = 1

\* the positions of the events ev in a trace
Positions(trace, ev) == {k \in DOMAIN trace : trace[k].ev = ev}

\* the keys of a call of setup that are setup attributes
Recognized(kwds) == DOMAIN kwds \cap Range(SetupAttributes)

\* the warnings about keys that are no setup attributes
InvalidWarnings(trace) ==
    {k \in Positions(trace, "warning") : trace[k].a = "invalid setup_attributes"}

\* C19, the assignments and the warning: a call of setup on a module whose
\* _setup can run returns without an error, has assigned every key given that
\* is a setup attribute, and has logged a warning if and only if a key given
\* is none; it leaves setup_ongoing false.
C19_SetupAssigns ==
    (callOp = "setup")
    => /\ ~iir.setup_ongoing
       /\ iir.stages # 0
          => /\ iir.exc = "none"
             /\ \A key \in Recognized(callArg) :
                    \E k \in Positions(iir.trace, "changed") : iir.trace[k].a = key
             /\ (DOMAIN callArg \ Range(SetupAttributes) # {})
                <=> (InvalidWarnings(iir.trace) # {})
             /\ \A w \in InvalidWarnings(iir.trace) :
                    \E k \in Positions(iir.trace, "_setup") : w < k

\* C19: a call of setup does what C19_SetupAssigns says, and then calls _setup
\* while setup_ongoing is true: _setup is called after the assignments, and
\* setup_ongoing is true at every call of _setup.
C19_Setup ==
    /\ C19_SetupAssigns
    /\ (callOp = "setup" /\ iir.stages # 0)
       => /\ Positions(iir.trace, "_setup") # {}
          /\ \A k \in Positions(iir.trace, "_setup") : iir.trace[k].flag

\* the positions in a trace where the slave list name was written
SlaveWritten(trace, name) == {k \in Positions(trace, "changed") : trace[k].a = name}

\* C17: an assignment to the master list poles (or zeros) writes the complex
\* slave and the real slave, once each, before any run of _setup, and it makes
\* _setup run at most once.
C17_MasterAsOneUnit ==
    (callOp = "master")
    => /\ Cardinality(SlaveWritten(iir.trace, Join("complex", callKey))) = 1
       /\ Cardinality(SlaveWritten(iir.trace, Join("real", callKey))) = 1
       /\ \A k \in Positions(iir.trace, "_setup") :
              \A j \in SlaveWritten(iir.trace, Join("complex", callKey))
                         \cup SlaveWritten(iir.trace, Join("real", callKey)) : j < k
       /\ Cardinality(Positions(iir.trace, "_setup")) <= 1

\* a master list with a real and a complex element was assigned and _setup ran
C17_Witness ==
    /\ callOp = "master" /\ callKey = "poles" /\ iir.exc = "none"
    /\ Len(iir.lists["real_poles"]) = 1 /\ Len(iir.lists["complex_poles"]) = 1
    /\ Cardinality(Positions(iir.trace, "_setup")) = 1

-----------------------------------------------------------------------------
(* Properties of ownership, checked under SpecOwner *)

\* C6: ownership restore.  When an owned module is released, every setup
\* attribute has the value that was persisted when the module was acquired.
C6_OwnershipRestore ==
    (callOp = "owner" /\ callArg = NoOwner /\ callKey # NoOwner)
    => \A key \in Range(SetupAttributes) : AttrValue(iir, key) = preAcq[key]

\* the events ev of a trace
EventsOf(trace, ev) == SelectSeq(trace, LAMBDA e : e.ev = ev)

\* the calls of the hook _ownership_changed in a trace, as pairs (old, new)
HookCalls(trace) ==
    [k \in 1..Len(EventsOf(trace, "_ownership_changed")) |->
        <<EventsOf(trace, "_ownership_changed")[k].a,
          EventsOf(trace, "_ownership_changed")[k].b>>]

\* C15: when the owner of a module owned by x is set to another owner y, the
\* assignment is carried out, the hook is called with (old=x, new=None) and
\* then with (old=None, new=y), and autosave is never enabled on the way.
C15_Reassign ==
    (callOp = "owner" /\ callKey \in Owners /\ callArg \in Owners /\ callKey # callArg)
    => /\ iir.exc = "none" /\ iir.owner = callArg
       /\ HookCalls(iir.trace) = <<<<callKey, NoOwner>>, <<NoOwner, callArg>>>>
       /\ ~iir.autosave_active
       /\ \A k \in DOMAIN iir.trace :
              iir.trace[k].ev = "autosave" => iir.trace[k].a = "False"

\* the positions of the notification of a change of ownership
Notified(trace) ==
    {k \in Positions(trace, "emit") : trace[k].a = "change_ownership"}

\* C16: when an owned module is released, autosave is enabled first, then the
\* hook is called with (old=x, new=None), then the setup attributes are
\* reloaded, each of them assigned from the persisted state, and the
\* notification of the change comes after all of that: it is the last step of
\* a release that returns, and no release sends it earlier.
C16_ReleaseOrder ==
    (callOp = "owner" /\ callKey \in Owners /\ callArg = NoOwner)
    => /\ Len(iir.trace) >= 3
       /\ iir.trace[1].ev = "autosave" /\ iir.trace[1].a = "True"
       /\ Positions(iir.trace, "autosave") = {1}
       /\ HookCalls(iir.trace) = <<<<callKey, NoOwner>>>>
       /\ Positions(iir.trace, "_ownership_changed") = {2}
       /\ Positions(iir.trace, "_load_setup_attributes") = {3}
       /\ Notified(iir.trace) \subseteq {Len(iir.trace)}
       /\ iir.exc = "none"
          => /\ Notified(iir.trace) = {Len(iir.trace)}
             /\ \A key \in Range(SetupAttributes) :
                    \E k \in Positions(iir.trace, "changed") : iir.trace[k].a = key

\* an owned module was released and the release returned
C16_Witness ==
    /\ callOp = "owner" /\ callKey \in Owners /\ callArg = NoOwner
    /\ iir.exc = "none" /\ iir.owner = NoOwner /\ iir.autosave_active
    /\ Notified(iir.trace) = {Len(iir.trace)}
    /\ Len(iir.trace) > 4

-----------------------------------------------------------------------------
(* Properties of the selection, checked under SpecSelect *)

\* C7: at most one of the four lists has a selected element, and after a
\* selection in one list it is that list, with the index selected.
C7_AtMostOneSelected ==
    /\ Cardinality({n \in Range(Containers) : iir.selected[n] # Unselected}) <= 1
    /\ callOp = "select"
       => /\ iir.selected[callKey] = callArg
          /\ iir.selected_pole_or_zero = callKey
          /\ iir.selected_index = callArg

\* an element of complex_zeros is selected, and the other three lists were told
\* to drop their selection
C7_Witness ==
    /\ callOp = "select" /\ callKey = "complex_zeros"
    /\ iir.selected["complex_zeros"] = Index(1)
    /\ Count(iir.trace, "info") = 3

-----------------------------------------------------------------------------
(* Properties of the pole and zero lists, checked under SpecIir *)

\* C8: every element stored in real_poles is negative: an assignment to
\* real_poles stores -v for a positive v, and -1 for 0.
C8_RealPolesNegative ==
    /\ \A k \in DOMAIN iir.lists["real_poles"] : iir.lists["real_poles"][k] < 0
    /\ (callOp = "slave" /\ callKey = "real_poles")
       => /\ Len(iir.lists["real_poles"]) = Len(callArg)
          /\ \A k \in DOMAIN callArg :
                iir.lists["real_poles"][k] =
                    (IF callArg[k] > 0 THEN 0 - callArg[k]
                     ELSE IF callArg[k] = 0 THEN 0 - 1 ELSE callArg[k])

\* the elements of a list, each with the number of times it occurs
BagOf(s) == [x \in Range(s) |-> Cardinality({k \in DOMAIN s : s[k] = x})]

\* the normal form of an element of the poles or zeros: a real part that is
\* positive in a pole negated, a real part of zero made -1, and the imaginary
\* part made positive
Normalized(name, v) ==
    Cx(IF v.re > 0 /\ name = "poles" THEN 0 - v.re
       ELSE IF v.re = 0 THEN 0 - 1 ELSE v.re,
       IF v.im < 0 THEN 0 - v.im ELSE v.im)

\* C9: after an assignment to the master list poles or zeros, the master's
\* value holds the normal forms of the elements assigned, each as often as it
\* was assigned; the real slave holds those with no imaginary part and the
\* complex slave the others.
C9_MasterUnion ==
    callOp = "master"
    => /\ BagOf(GetMaster(iir, callKey))
          = BagOf([k \in DOMAIN callArg |-> Normalized(callKey, callArg[k])])
       /\ Len(iir.lists[Join("real", callKey)])
          = Cardinality({k \in DOMAIN callArg : callArg[k].im = 0})
       /\ Len(iir.lists[Join("complex", callKey)])
          = Cardinality({k \in DOMAIN callArg : callArg[k].im # 0})
       /\ \A k \in DOMAIN iir.lists[Join("complex", callKey)] :
             iir.lists[Join("complex", callKey)][k].im # 0

\* C18: the value of the master list poles (or zeros) is the complex slave
\* followed by the real slave: it has the elements of the complex slave first,
\* in the order of that list, and then those of the real slave, in the order
\* of that list, and nothing else.
C18_ComplexFirst ==
    \A name \in {"poles", "zeros"} :
        /\ Len(GetMaster(iir, name))
           = Len(iir.lists[Join("complex", name)]) + Len(iir.lists[Join("real", name)])
        /\ \A k \in DOMAIN iir.lists[Join("complex", name)] :
               GetMaster(iir, name)[k] = iir.lists[Join("complex", name)][k]
        /\ \A k \in DOMAIN iir.lists[Join("real", name)] :
               GetMaster(iir, name)[Len(iir.lists[Join("complex", name)]) + k]
               = Cx(iir.lists[Join("real", name)][k], 0)

\* the poles with a complex element and two different real ones
C18_Witness ==
    /\ Len(iir.lists["complex_poles"]) = 1
    /\ Len(iir.lists["real_poles"]) = 2
    /\ iir.lists["real_poles"][1] # iir.lists["real_poles"][2]
    /\ GetMaster(iir, "poles")[1] = iir.lists["complex_poles"][1]
    /\ GetMaster(iir, "poles")[3] = Cx(iir.lists["real_poles"][2], 0)

-----------------------------------------------------------------------------
(* Properties of a write followed by a read, checked under SpecRoundTrip *)

\* the sequence the caller wrote and the value its last call returned
Written == Flat(rt.written)
Out == [rt.out EXCEPT !.v = Flat(rt.out.v)]

\* C10 as stated: a read of as many words as were written, at the address
\* they were written at, returns the sequence written, whatever its length.
C10_RoundTripAnyLength ==
    (rt.phase = "read" /\ rt.n = Len(Written))
    => Out = SeqValue(Written)

\* C10: the write of a sequence of at most 65533 words returns True, and a
\* read of as many words at the same address returns the sequence written.
C10_RoundTrip ==
    /\ (rt.phase = "written" /\ Len(Written) <= MaxWriteLen)
       => Out = TrueValue
    /\ (rt.phase = "read" /\ rt.n = Len(Written)
        /\ Len(Written) <= MaxWriteLen)
       => Out = SeqValue(Written)

\* the longest sequence a write sends whole has been read back
C10_Witness ==
    /\ rt.phase = "read" /\ rt.n = MaxWriteLen
    /\ Len(Written) = MaxWriteLen
    /\ Out = SeqValue(Written)

\* C30: a write of any number of values does not fail and sends at most 65533
\* of them: the length field of the header it sent is min(len(values), 65533),
\* the payload sent with the header has 4 bytes for each word of that length,
\* and the write returns True.
C30_WriteTruncates ==
    (rt.phase = "written")
    => /\ rt.hdr[1] = OpWrite
       /\ ReqLength(rt.hdr) = Min(Len(Written), 65533)
       /\ rt.sent = 4 * ReqLength(rt.hdr)
       /\ Out = TrueValue

\* a write of 65534 values has sent 65533 words and returned True
C30_Witness ==
    /\ rt.phase = "written" /\ Len(Written) = 65534
    /\ ReqLength(rt.hdr) = 65533 /\ rt.sent = 4 * 65533
    /\ Out = TrueValue

-----------------------------------------------------------------------------
(* Further properties of MonitorClient, checked under SpecClient *)

\* C11: framing.  An attempt of a read of length N never holds more than
\* 8 + 4N bytes, a read that returns has taken exactly 8 + 4N bytes from the
\* socket and returns N words, in however many pieces they came; and when
\* nothing else went wrong in the call, no byte is left in the socket.
C11_Framing ==
    /\ (cpc = "recv" /\ fn = "r") => Len(data) < HeaderLen + 4 * arg.n
    /\ (cpc = "done" /\ fn = "r" /\ result.kind = "ok")
       => /\ Len(data) = HeaderLen + 4 * arg.n
          /\ Len(result.val.v) = arg.n
          /\ (nGarbled = 0 /\ ~faulted) => (stream = <<>> /\ req = <<>>)

\* a read of two words has returned them, received in more than one piece
C11_Witness ==
    /\ cpc = "done" /\ fn = "r" /\ result.kind = "ok"
    /\ arg.n = MaxLen /\ nRecv = 2
    /\ Len(data) = HeaderLen + 4 * MaxLen
    /\ nGarbled = 0 /\ ~faulted /\ stream = <<>>

\* C12: every call of reads or writes ends: once begun, it returns a value or
\* None or raises.
C12_Terminates == (cpc \in {"loop", "recv", "drain"}) ~> (cpc = "done")

\* C13: a call makes at most 5 attempts, and a call that has made 5 attempts,
\* none of them with success, whatever mix of socket errors and mismatched
\* headers they met, returns None: it neither raises nor returns data.  A
\* call whose reconnect callback gave no port is left aside.
C13_ExhaustedIsNone ==
    /\ nAttempts <= MaxTries
    /\ (cpc = "done" /\ nAttempts = MaxTries /\ result.kind # "ok" /\ ~cbFailed)
       => result = Returned(NoneValue)


-----------------------------------------------------------------------------
(* Properties of the fixed-point codec, checked under SpecCodec *)

\* the scaled value of v fits bitlength bits in two's complement
Representable(v, bitlength, shift) ==
    /\ Le(Neg(Pow2(bitlength - 1)), RoundScaled(v, shift))
    /\ Lt(RoundScaled(v, shift), Pow2(bitlength - 1))

\* |x|
AbsBits(x) == IF IsNeg(x) THEN Neg(x) ELSE x

\* the double out is within 2^-shift of the double v = v.k * 2^v.x
WithinStep(out, v, shift) ==
    IF v.x + shift >= 0
    THEN Le(AbsBits(Sub(out.num, ShiftLeft(FromInt(v.k), v.x + shift))), One)
    ELSE Le(AbsBits(Sub(ShiftLeft(out.num, -(v.x + shift)), FromInt(v.k))),
            Pow2(-(v.x + shift)))

\* C14: for every bit length in {14, 32, 64} and every shift in 0..48, decoding
\* the two words that encoding a value gave returns a value within 2^-shift of
\* it, for every value, negative ones included, whose scaled value fits the bit
\* length without wrapping around.
C14_RoundTrip ==
    (fx.pc = "decoded" /\ Representable(fx.v, fx.bitlength, fx.shift))
    => (fx.exc = "" /\ fx.out.shift = fx.shift /\ WithinStep(fx.out, fx.v, fx.shift))


-----------------------------------------------------------------------------
(* Properties of the coefficient registers, checked under SpecCoef *)

\* C20: an assignment to coefficients of a matrix with more rows than the
\* bitfile has stages raises an exception and makes no register transaction:
\* the registers and _writtendata are what they were before.  An assignment
\* that does make a transaction makes it with the whole payload of eight
\* words for each stage, and has raised nothing.
C20_TooManyStages ==
    [][/\ Len(NoneAsEmpty(coef'.arg)) > coef.stages
          => /\ coef'.exc = "Exception"
             /\ ~coef'.wrote
             /\ coef'.regs = coef.regs
             /\ coef'.writtendata = coef.writtendata
       /\ coef'.wrote
          => /\ coef'.exc = "none"
             /\ coef'.payload = 8 * coef.stages
             /\ coef'.writtendata = [set |-> TRUE, data |-> coef'.writtendata.data]
             /\ Len(coef'.writtendata.data) = 8 * coef.stages]_vars

\* a matrix with a stage too many was assigned after coefficients had been
\* written to the registers
C20_Witness ==
    /\ coef.exc = "Exception" /\ ~coef.wrote
    /\ Len(coef.arg.rows) = coef.stages + 1
    /\ coef.writtendata.set
    /\ coef.regs = coef.writtendata.data
    /\ \E n \in DOMAIN coef.regs : coef.regs[n] # Word32(Zero)

-----------------------------------------------------------------------------
(* Properties of a MonitorClient shared by two threads, checked under        *)
(* SpecTwoCallers                                                             *)

\* thread c has sent a request and has not received all of its response
InTransaction(c) == tc.th[c].pc = "recv"

\* C21: serialized transactions.  With two callers on one client, no request
\* is sent while the response to another caller's request has not been fully
\* received, and no caller receives bytes of another caller's response.
C21_Serialized ==
    /\ ~(InTransaction(1) /\ InTransaction(2))
    /\ \A c \in Callers : ~tc.th[c].foreign

-----------------------------------------------------------------------------
(* Properties of close(), checked under SpecClose *)

\* the frames close() has put on the connection
CloseFrames == {k \in 1..Len(tc.req) : tc.req[k].by = 0}

\* C22: close() is best-effort.  It never ends by raising, whether its send or
\* its socket.close raised a socket error; what it sends is the 8-byte frame
\* ['c', 0, 0, 0, 0, 0, 0, 0] and nothing else; and when the send went through
\* the socket is closed.
C22_CloseBestEffort ==
    /\ tc.closed # "raised"
    /\ \A k \in CloseFrames :
           /\ tc.req[k].hdr = <<OpClose, 0, 0, 0, 0, 0, 0, 0>>
           /\ tc.req[k].body = <<>>
    /\ tc.sentinel => tc.sock = "closed"
    /\ tc.swallowed # "none" => tc.closed = "returned"

\* a close() whose socket.close raised after the sentinel was sent, with the
\* sentinel still on the connection
C22_Witness ==
    /\ tc.closed = "returned" /\ tc.swallowed = "close"
    /\ tc.sentinel /\ CloseFrames # {}

-----------------------------------------------------------------------------
(* Properties of the module as a context manager, checked under SpecWith *)

\* C23: a module used as a context manager is freed when the block is left.
\* When __exit__ has run, after a block that ended or a block that raised,
\* whatever the block did to the owner, the owner is None and the module is
\* in the state of a free module: autosave is active.
C23_WithFrees ==
    (callOp = "__exit__")
    => /\ wb.pc = "left"
       /\ iir.owner = NoOwner
       /\ iir.autosave_active

\* the block of an owned module was left by an exception
C23_Witness ==
    /\ callOp = "__exit__" /\ wb.raised /\ callKey \in Owners
    /\ iir.owner = NoOwner

-----------------------------------------------------------------------------
(* Properties of the complex slave lists, checked under SpecIir *)

\* C24: every element stored in complex_poles has a strictly negative real
\* part: an assignment stores a positive real part negated and a real part of
\* zero as -1.
C24_ComplexPolesStable ==
    /\ \A k \in DOMAIN iir.lists["complex_poles"] :
           iir.lists["complex_poles"][k].re < 0
    /\ (callOp = "slave" /\ callKey = "complex_poles")
       => /\ Len(iir.lists["complex_poles"]) = Len(callArg)
          /\ \A k \in DOMAIN callArg :
                 iir.lists["complex_poles"][k].re =
                     (IF callArg[k].re > 0 THEN 0 - callArg[k].re
                      ELSE IF callArg[k].re = 0 THEN 0 - 1 ELSE callArg[k].re)

-----------------------------------------------------------------------------
(* Properties of the rounding of the codec, checked under SpecCodec *)

\* the integer nearest to n / 2 for an odd n, the half rounded away from zero
HalfAwayFromZero(n) == IF n > 0 THEN (n + 1) \div 2 ELSE (n - 1) \div 2

\* C25: encoding rounds half away from zero.  A value whose scaled value
\* v * 2^shift is k + 1/2 with k >= 0 encodes as the two words of k + 1, and
\* one whose scaled value is -(k + 1/2) as the two words of -(k + 1) in two's
\* complement of the bit length.
C25_HalfAwayFromZero ==
    (fx.pc = "encoded" /\ fx.v.x + fx.shift = 0 - 1 /\ fx.v.k % 2 = 1)
    => [hi |-> fx.hi, lo |-> fx.lo]
       = Words(And(FromInt(HalfAwayFromZero(fx.v.k)), Mask(fx.bitlength)))

-----------------------------------------------------------------------------
(* Properties of the reconnection, checked under SpecClient *)

\* an attempt ends in a socket error that try_n_times catches
CaughtStep ==
    \E o \in RestartOutcomes : AttemptSendFails(o) \/ RecvTimeout(o) \/ DrainTimeout(o)

-----------------------------------------------------------------------------
(* Properties of autosave, checked under SpecOwner *)

\* C28: after any sequence of owner assignments, autosave is active if and
\* only if the module is free, its owner None: an assignment of an owner
\* disables autosave and an assignment of None enables it.
C28_AutosaveIffFree ==
    /\ iir.autosave_active <=> (iir.owner = NoOwner)
    /\ (callOp = "owner") => (iir.owner = callArg)

\* an owned module was given to another owner, and autosave is off
C28_Witness ==
    /\ callOp = "owner" /\ callKey \in Owners /\ callArg \in Owners
    /\ callKey # callArg
    /\ iir.owner = callArg /\ ~iir.autosave_active

-----------------------------------------------------------------------------
(* Properties of the list utilities, checked under SpecUtils *)

\* the place of the last occurrence of x in list
LastIndex(list, x) ==
    CHOOSE k \in DOMAIN list : list[k] = x /\ \A j \in DOMAIN list : list[j] = x => j <= k

\* out holds each element of list once, in the order of their last occurrences
LastWins(list, out) ==
    /\ Elements(out) = Elements(list)
    /\ \A j, k \in DOMAIN out :
           j < k => /\ out[j] # out[k]
                    /\ LastIndex(list, out[j]) < LastIndex(list, out[k])

\* the names a class statement brings together: those of its bases, from the
\* last base to the first, its own, and those of its submodules
DeclaredNames(bases, own, ownModules) ==
    ReversedBases(bases, "setup") \o own
    \o ReversedBases(bases, "modules") \o ownModules

\* C26: last declaration wins.  For any list, unique_list returns a list in
\* which each element of the list occurs exactly once, at the place of its
\* last occurrence relative to the others; and the _setup_attributes of a
\* class is that deduplication of the names of its bases, its own names and
\* the names of its submodules.
C26_LastDeclarationWins ==
    /\ (ut.fn = "unique_list") => LastWins(ut.lists[1], ut.out)
    /\ (ut.fn = "meta")
       => LastWins(DeclaredNames(ut.bases, ut.lists[1], ut.lists[2]), ut.out)

\* a list with an element that occurs before and after another one was
\* deduplicated, and a class with two bases that share names was made
C26_Witness ==
    \/ ut.fn = "unique_list"
       /\ ut.lists[1] = <<<<"a">>, <<"b">>, <<"a">>>>
       /\ ut.out = <<<<"b">>, <<"a">>>>
    \/ ut.fn = "meta" /\ Len(ut.bases) = 2
       /\ Len(ut.out) < Len(DeclaredNames(ut.bases, ut.lists[1], ut.lists[2]))

\* C27: for any list of classes, the list of names has the length of the list
\* of classes, its i-th name is made from the lowercased name of the i-th
\* class, that name itself when it occurs once among the classes and the name
\* with a number otherwise, and the names differ from one another.
C27_UniqueNames ==
    (ut.fn = "names")
    => /\ Len(ut.out) = Len(ut.lists[1])
       /\ \A k \in DOMAIN ut.out \cap DOMAIN ut.lists[1] :
              IF Cardinality({j \in DOMAIN ut.lists[1] :
                                 Lower(ut.lists[1][j]) = Lower(ut.lists[1][k])}) = 1
              THEN ut.out[k] = Lower(ut.lists[1][k])
              ELSE \E n \in 0..9 : ut.out[k] = Lower(ut.lists[1][k]) \o Str(n)
       /\ \A j, k \in DOMAIN ut.out : j # k => ut.out[j] # ut.out[k]

\* C31: every element stored in complex_poles or complex_zeros has an
\* imaginary part that is not negative, after any assignments to the master
\* lists and to the slave lists: an assignment stores a negative imaginary
\* part negated, for poles and for zeros.
C31_ImaginaryNotNegative ==
    /\ \A name \in {"complex_poles", "complex_zeros"} :
           \A k \in DOMAIN iir.lists[name] : iir.lists[name][k].im >= 0
    /\ (callOp = "master" /\ iir.exc = "none")
       => /\ Len(iir.lists[Join("complex", callKey)])
             = Len(SelectSeq(callArg, IsNotReal))
          /\ \A k \in DOMAIN iir.lists[Join("complex", callKey)] :
                 iir.lists[Join("complex", callKey)][k].im
                 = (IF SelectSeq(callArg, IsNotReal)[k].im < 0
                    THEN 0 - SelectSeq(callArg, IsNotReal)[k].im
                    ELSE SelectSeq(callArg, IsNotReal)[k].im)

\* a zero and a pole with negative imaginary parts were assigned and are
\* stored with the imaginary parts negated
C31_Witness ==
    /\ callOp = "master" /\ callKey = "zeros" /\ callArg = <<Cx(0 - 1, 0 - 1)>>
    /\ iir.lists["complex_zeros"] = <<Cx(0 - 1, 1)>>
    /\ \E k \in DOMAIN iir.lists["complex_poles"] : iir.lists["complex_poles"][k].im = 3

-----------------------------------------------------------------------------
(* Further properties of the selection, checked under SpecSelect *)

\* the notifications that the plot has to be redrawn
PlotUpdates(trace) == {k \in Positions(trace, "emit") : trace[k].a = "update_plot"}

\* C32: one select on a list records the name of the list and the index as
\* the current selection and sends exactly one update_plot notification, the
\* last thing it does, although the selection of each of the other three
\* lists is cleared by a select of its own.
C32_OneNotification ==
    (callOp = "select")
    => /\ iir.selected_pole_or_zero = callKey
       /\ iir.selected_index = callArg
       /\ PlotUpdates(iir.trace) = {Len(iir.trace)}
       /\ Cardinality(Positions(iir.trace, "list_changed")) = 1
       /\ Count(iir.trace, "info") = 3

\* an element of real_zeros was selected, the other three lists were told to
\* drop their selection, and one notification was sent
C32_Witness ==
    /\ callOp = "select" /\ callKey = "real_zeros" /\ callArg # Unselected
    /\ iir.selected_index = callArg
    /\ Cardinality(PlotUpdates(iir.trace)) = 1
    /\ Count(iir.trace, "info") = 3

-----------------------------------------------------------------------------
(* Properties of the flag _selecting, checked under SpecSelectRaising *)

\* C38: _selecting is false whenever no select is running.  A select in which
\* clearing the selection of another list raised has reset it: the exception
\* reaches the caller, no notification is sent, and a select that comes later
\* and meets no error does all its work.
C38_SelectingReset ==
    /\ ~iir.selecting
    /\ (callOp = "select_raising")
       => /\ iir.exc = "Exception"
          /\ PlotUpdates(iir.trace) = {}
    /\ (callOp = "select")
       => /\ iir.exc = "none"
          /\ iir.selected_pole_or_zero = callKey
          /\ iir.selected_index = callArg
          /\ Cardinality(PlotUpdates(iir.trace)) = 1
          /\ Count(iir.trace, "info") = 3

\* a select of real_zeros raised after it had cleared real_poles, when the
\* selection of complex_poles was to be cleared
C38_Witness ==
    /\ callOp = "select_raising" /\ callKey = "real_zeros"
    /\ iir.exc = "Exception" /\ ~iir.selecting
    /\ Count(iir.trace, "info") = 1

-----------------------------------------------------------------------------
(* Properties of the signed-integer conversions, checked under SpecPyint *)

\* what _from_pyint returned lies in 0 .. 2^bitlength - 1
InWordRange(x, bitlength) ==
    /\ x.lo \in 0..(Half - 1)
    /\ IF bitlength <= 16 THEN x.hi = 0 /\ x.lo < 2^bitlength
       ELSE x.hi \in 0..(2^(bitlength - 16) - 1)

\* C33: for every bitlength b and every v with -2^(b-1) <= v <= 2^(b-1) - 1,
\* _to_pyint(_from_pyint(v, b), b) = v, and _from_pyint(v, b) lies in
\* 0 .. 2^b - 1.
C33_PyintRoundTrip ==
    /\ (hm.fn \in {"_from_pyint", "_to_pyint"}) => InWordRange(hm.word, hm.bitlength)
    /\ (hm.fn = "_to_pyint") => hm.out = PyInt(hm.v)

-----------------------------------------------------------------------------
(* Properties of make_a_slave, checked under SpecStemLab *)

\* C35: make_a_slave leaves the master's parameters port,
\* monitor_server_name, reloadfpga and autostart as the master was given
\* them (at construction, or by restartserver for the port), so that
\* restartserver() on the master starts the server on the master's own port.
C35_MasterParametersKept ==
    /\ ParametersOf(rp, Master) = rp.given
    /\ (rp.op = "restartserver" /\ rp.by = Master)
       => /\ rp.started.port = rp.given.port
          /\ rp.started.name = rp.given.monitor_server_name

-----------------------------------------------------------------------------
(* The request of each attempt, checked under SpecClient *)

\* C34: every attempt of one public call sends the same request: the
\* address, and the length or the values the caller passed, are what every
\* attempt is given and what its header is built from, whatever the earlier
\* attempts met.
C34_SameRequest ==
    /\ (cpc = "loop") => value = arg
    /\ (cpc \in {"recv", "drain"}) => (value = arg /\ header = AttemptHeader)

-----------------------------------------------------------------------------
(* The construction of the client, checked under SpecClient *)

\* C36: a construction of the client, here the one restart() runs after a
\* caught socket error, ends with the socket connected or raises: it never
\* returns a client that is not connected.
C36_ConnectedOrRaises ==
    [][(hasRestart /\ CaughtStep)
       => (connected' \/ (cpc' = "done" /\ result'.kind = "raised"))]_vars

-----------------------------------------------------------------------------
(* The socket after close(), checked under SpecClose *)

\* C37: close() leaves the socket closed, also when sending the close frame
\* failed, so that the client never holds an open socket next to the one it
\* opens afterwards.
C37_CloseLeavesClosed ==
    (tc.closed = "returned") => tc.sock = "closed"

-----------------------------------------------------------------------------
(* The cached coefficient payload, checked under SpecCoef *)

\* C39: _writtendata is the last payload the hardware acknowledged, which in
\* this model is what the registers hold: a payload whose write the client
\* gave up on is not cached, and the setter that met the failure raises.
C39_CacheIsAcknowledged ==
    /\ coef.writtendata.set => coef.writtendata.data = coef.regs
    /\ (coef.wrote /\ coef.exc = "none") => coef.regs = coef.writtendata.data

-----------------------------------------------------------------------------
(* setup with a value that is rejected, checked under SpecSetupRaising *)

\* the place of a setup attribute in the order of the class
PlaceOf(key) == CHOOSE k \in DOMAIN SetupAttributes : SetupAttributes[k] = key

\* the keys a setup that raised at the key bad had assigned before
AssignedBefore(kwds, bad) ==
    {key \in DOMAIN kwds \cap Range(SetupAttributes) : PlaceOf(key) < PlaceOf(bad)}

\* C40: when the assignment of one of the given values raises during
\* setup(**kwds), the exception reaches the caller, _setup has not been
\* invoked, setup_ongoing is false afterwards, and the attributes that come
\* before the failing one in the order of the class have their new values.
C40_SetupRaises ==
    (callOp = "setup_raising")
    => /\ iir.exc = "ValueError"
       /\ ~iir.setup_ongoing
       /\ Count(iir.trace, "_setup") = 0
       /\ \A key \in AssignedBefore(callArg, callKey) \ {"zeros", "poles"} :
              iir[key] = callArg[key]
       /\ \A key \in AssignedBefore(callArg, callKey) \cap {"zeros", "poles"} :
              Len(GetMaster(iir, key)) = Len(callArg[key])

====
